---- MODULE Spec2Model ----
(***************************************************************************)
(* Meter framework of the QGIS profiler plugin (qgis_profiler.meters):     *)
(* the Meter base class and its three variants RecoveryMeasurer,           *)
(* MainThreadHealthChecker (with its ThreadPoller on a worker thread) and  *)
(* MapRenderingMeter, together with the Meter.monitor decorator.           *)
(*                                                                         *)
(* One meter singleton is studied at a time; its class is chosen in Init.  *)
(* Times are integer milliseconds.  A duration in seconds of the code is   *)
(* kept as its number of milliseconds (round(ms / 1000, 3) is exact).      *)
(***************************************************************************)
EXTENDS Integers, Sequences, FiniteSets, TLC

(* ---------------------------------------------------------------------- *)
(* Bounds of the model                                                     *)
(* ---------------------------------------------------------------------- *)
MaxTicks == 2          \* clock advances in one behaviour
MaxStack == 2          \* entries of _context_stack
MaxDepth == 2          \* nested scoped blocks / monitored calls / measure loops
MaxPollers == 2        \* ThreadPoller + QThread pairs alive at one time
MaxSlots == 2          \* connections of one slot to one signal
MaxQueue == 2          \* poll signals queued for the main thread
MaxLog == 2            \* anomalies kept in the observation log
MaxEvents == 3         \* profiler events and records of one behaviour
MaxTracked == 4        \* events and records of a wrapper used directly
MaxSeen == 2           \* times the event filter sees one mouse release

(* ---------------------------------------------------------------------- *)
(* Program constants and settings values                                   *)
(* ---------------------------------------------------------------------- *)
MsPerSecond == 1000    \* threshold_s * 1000
RenderTimeoutS == 10   \* timeout = 10 in MapRenderingMeter._measure
ThresholdMs == 1       \* <meter>_threshold setting, in ms
PollIntervalMs == 1    \* thread_health_checker_poll_interval setting, in ms
RecoveryTimeoutMs == 2 \* recovery_timeout setting, in ms

None == <<>>           \* Python's None; a value x that is present is <<x>>
Some(x) == <<x>>
Invalid == -1          \* a QElapsedTimer that was never started
NoPoller == 0          \* self._poller = None, self._polling_thread = None

RecoveryMeasurer == "RecoveryMeasurer"
MainThreadHealthChecker == "MainThreadHealthChecker"
MapRenderingMeter == "MapRenderingMeter"
MeterClasses == {RecoveryMeasurer, MainThreadHealthChecker, MapRenderingMeter}

MetersGroup == "Meters"        \* Settings.meters_group default
ActiveGroup == "Plugins"       \* Settings.active_group default

VARIABLES
  cls,               \* class of the meter singleton under study
  meter,             \* the meter object, its Qt connections and its pollers
  poll_queue,        \* queued invocations of _on_poll_event, by emission time
  canvas_rendering,  \* the map canvas has a render job in progress
  now,               \* wall clock, ms
  call_stack,        \* main thread: open blocks, monitored calls, wait loops
  added,             \* contexts added and not yet popped, in order of addition
  last_return,       \* the call or callback that completed last
  settings,          \* Settings.profiler_enabled: stored value, cache, environment
  profiler,          \* ProfilerWrapper with the QgsRuntimeProfiler it wraps
  recorder,          \* ProfilerEventRecorder, its Qt connections, posted events
  config,            \* a SimpleMapToolConfig and the responses it has given
  extension,         \* ProfilerExtension: meter list, connections, buttons
  singletons,        \* the meter singletons as ProfilerExtension uses them
  macro_recorder,    \* MacroRecorder: recorded events, timer, recording flag
  input,             \* keys and buttons held down, the click last completed
  macro_player,      \* MacroPlayer: speed, timer, the calls of play in progress
  parser             \* ProfilerResult.parse_from_text: text, lines left, calls

vars == <<cls, meter, poll_queue, canvas_rendering, now, call_stack, added,
          last_return, settings, profiler, recorder, config, extension,
          singletons, macro_recorder, input, macro_player,
          parser>>

\* The state of the profiler, which the meters' own operations leave alone,
\* and the state of the meters, which the profiler's operations leave alone.
\* The state of the plugin's user interface belongs to neither.
tool_vars == <<macro_recorder, input, macro_player, parser>>
plugin_vars == <<config, extension, singletons, tool_vars>>
profiler_vars == <<settings, profiler, recorder, plugin_vars>>
meter_vars == <<cls, meter, poll_queue, canvas_rendering, now, added>>

(* ---------------------------------------------------------------------- *)
(* MeterContext, MeterAnomaly                                              *)
(* ---------------------------------------------------------------------- *)
MeterContext(name, group) == [name |-> name, group |-> group]

Contexts == {MeterContext("foo", "group1"), MeterContext("bar", "group2")}

with_meter_suffix(context, suffix) ==
  MeterContext(context.name \o " (" \o suffix \o ")", context.group)

short_name(c) ==
  CASE c = MainThreadHealthChecker -> "main_thread"
    [] c = MapRenderingMeter -> "rendering"
    [] OTHER -> ""

default_context(c) == MeterContext(c, MetersGroup)

supports_continuous_measuring(c) ==
  c \in {MainThreadHealthChecker, MapRenderingMeter}

\* Variant: the oldest context of the stack is the current one.
current_context_oldest(m) ==
  LET context == IF m.context_stack # <<>>
                   THEN m.context_stack[1]
                   ELSE default_context(cls)
  IN  IF short_name(cls) # ""
        THEN with_meter_suffix(context, short_name(cls))
        ELSE context
current_context_of(m) ==
  LET context == IF m.context_stack # <<>>
                   THEN m.context_stack[Len(m.context_stack)]
                   ELSE default_context(cls)
  IN  IF short_name(cls) # ""
        THEN with_meter_suffix(context, short_name(cls))
        ELSE context

current_context == current_context_of(meter)

\* Variant: the meter reports itself enabled whatever the flag says.
enabled_always(m) == TRUE
\* Meter.enabled, the property.
enabled(m) == m.enabled

threshold_ms == ThresholdMs

(* ---------------------------------------------------------------------- *)
(* Main thread: what is running                                            *)
(* ---------------------------------------------------------------------- *)
Idle == call_stack = <<>>
Top == call_stack[Len(call_stack)]
Below == SubSeq(call_stack, 1, Len(call_stack) - 1)

\* Application code is running on the main thread and may call the meter.
InUserCode ==
  \/ Idle
  \/ /\ ~Idle
     /\ \/ Top.type = "context"
        \/ Top.type = "monitor" /\ Top.phase = "body"

\* The main thread is dispatching events: the idle event loop, or a
\* processEvents() call inside a wait loop or inside the monitor wrapper.
InProcessEvents ==
  \/ Idle
  \/ /\ ~Idle
     /\ \/ Top.type \in {"measure", "recovery"}
        \/ Top.type = "monitor" /\ Top.phase = "process_events"

\* Scoped blocks are opened at the top level and inside scoped blocks.
CanNest ==
  \/ Idle
  \/ ~Idle /\ Len(call_stack) < MaxDepth /\ Top.type = "context"

\* Monitored functions are called from the top level.
CanCall == Idle

\* The innermost open block or monitored call around the running code.
RECURSIVE scope_of(_)
scope_of(frames) ==
  IF frames = <<>> THEN [kind |-> "none"]
  ELSE LET f == frames[Len(frames)]
       IN  IF f.type = "monitor" /\ f.active
             THEN [kind |-> "monitor", ctx |-> f.ctx]
           ELSE IF f.type = "monitor" THEN [kind |-> "none"]
           ELSE IF f.type = "context" THEN [kind |-> "context", ctx |-> f.ctx]
           ELSE scope_of(SubSeq(frames, 1, Len(frames) - 1))

(* ---------------------------------------------------------------------- *)
(* Observation log                                                         *)
(* ---------------------------------------------------------------------- *)
KeepLast(s, n) == IF Len(s) > n THEN SubSeq(s, Len(s) - n + 1, Len(s)) ELSE s

\* The log starts afresh with every activity that begins on an idle main thread.
Fresh(m) ==
  IF Idle THEN [m EXCEPT !.emitted = <<>>, !.profiler_records = <<>>] ELSE m

\* The observations of an activity are kept until something else happens.
Forget(m) == Fresh(m)
Forgotten == IF Idle THEN [op |-> "none", value |-> None] ELSE last_return

\* The meter without the observation log.
Core(m) == [m EXCEPT !.emitted = <<>>, !.profiler_records = <<>>]

NoReturn == [op |-> "none", value |-> None]

(* ---------------------------------------------------------------------- *)
(* Meter: contexts, profiler connection, anomalies                         *)
(* ---------------------------------------------------------------------- *)
add_context(m, name, group) ==
  [m EXCEPT !.context_stack = Append(@, MeterContext(name, group))]

\* Variant: pop_context leaves the stack as it is.
pop_context_keeps(m) == m
pop_context(m) ==
  IF m.context_stack # <<>>
    THEN [m EXCEPT !.context_stack = SubSeq(@, 1, Len(@) - 1)]
    ELSE m

pop_context_result(m) ==
  IF m.context_stack # <<>>
    THEN Some(m.context_stack[Len(m.context_stack)])
    ELSE None

connect_to_profiler(m) ==
  [m EXCEPT !.profiler_slots = @ + 1, !.connected_to_profiler = TRUE]

\* ProfilerWrapper.add_record as called by Meter._profile_anomaly.
profile_anomaly(records, anomaly) ==
  Append(records, [name |-> anomaly.context.name,
                   group |-> anomaly.context.group,
                   time_ms |-> anomaly.duration_ms])

RECURSIVE call_slots(_, _, _)
call_slots(records, anomaly, n) ==
  IF n = 0 THEN records
  ELSE call_slots(profile_anomaly(records, anomaly), anomaly, n - 1)

\* Meter._emit_anomaly: the signal calls every connected slot once.
emit_anomaly(m, duration, scope) ==
  LET anomaly == [context |-> current_context_of(m), duration_ms |-> duration]
  IN  [m EXCEPT
        !.emitted = KeepLast(Append(@, [context |-> anomaly.context,
                                        duration_ms |-> duration,
                                        enabled |-> m.enabled,
                                        records |-> m.profiler_slots,
                                        scope |-> scope]), MaxLog),
        !.profiler_records =
           KeepLast(call_slots(@, anomaly, m.profiler_slots), MaxLog)]

(* ---------------------------------------------------------------------- *)
(* Timers                                                                  *)
(* ---------------------------------------------------------------------- *)
\* QElapsedTimer.elapsed(); on a timer that was never started the value is
\* undefined: below or above the threshold.
ElapsedValues(start) ==
  IF start = Invalid THEN {0, threshold_ms + 1} ELSE {now - start}

LongStep == RenderTimeoutS * MsPerSecond
TicksUsed == (now \div LongStep) + (now % LongStep)

(* ---------------------------------------------------------------------- *)
(* Continuous measurement: MainThreadHealthChecker                         *)
(* ---------------------------------------------------------------------- *)
FreePoller == [state |-> "free", polling_active |-> FALSE,
               elapsed_start |-> Invalid, connected |-> FALSE]

PollerIds == 1..MaxPollers
FreeIds(m) == {p \in PollerIds : m.pollers[p].state = "free"}
NewPollerId(m) == CHOOSE p \in FreeIds(m) : \A q \in FreeIds(m) : p <= q

\* A ThreadPoller is created, connected and moved to a new started QThread.
thread_start_measuring(m) ==
  LET id == NewPollerId(m)
  IN  [m EXCEPT !.pollers[id] = [state |-> "starting", polling_active |-> FALSE,
                                 elapsed_start |-> Invalid, connected |-> TRUE],
                !.poller = id,
                !.polling_thread = id]

thread_stop_measuring(m) ==
  LET m1 == IF m.poller # NoPoller
              THEN [m EXCEPT !.pollers[m.poller].connected = FALSE]
              ELSE m
      m2 == IF /\ m1.polling_thread # NoPoller
               /\ m1.pollers[m1.polling_thread].state # "free"
              THEN [m1 EXCEPT !.pollers[m1.polling_thread] = FreePoller]
              ELSE m1
  IN  [m2 EXCEPT !.polling_thread = NoPoller, !.poller = NoPoller]

\* _on_poll_event without its call of set_poll_finished().
on_poll_event_keeps_polling_active(m, elapsed, scope) ==
  IF m.poller = NoPoller THEN m
  ELSE LET m1 == IF elapsed > threshold_ms
                   THEN emit_anomaly(m, elapsed, scope)
                   ELSE m
       IN  [m1 EXCEPT !.last_delay_ms = elapsed]

\* MainThreadHealthChecker._on_poll_event, reading `elapsed` from the poller.
on_poll_event(m, elapsed, scope) ==
  IF m.poller = NoPoller THEN m
  ELSE LET m1 == IF elapsed > threshold_ms
                   THEN emit_anomaly(m, elapsed, scope)
                   ELSE m
       IN  [m1 EXCEPT !.pollers[m.poller].polling_active = FALSE,
                      !.last_delay_ms = elapsed]

(* ---------------------------------------------------------------------- *)
(* Continuous measurement: MapRenderingMeter                               *)
(* ---------------------------------------------------------------------- *)
\* signal.disconnect(slot): removes one connection; with none left it raises
\* TypeError, which the callers suppress.
disconnect(n) == IF n > 0 THEN n - 1 ELSE n

rendering_start_measuring(m) ==
  [m EXCEPT !.render_started_slots = @ + 1, !.render_finished_slots = @ + 1]

rendering_stop_measuring(m) ==
  [m EXCEPT !.render_started_slots = disconnect(disconnect(@))]

rendering_started(m) == [m EXCEPT !.elapsed_timer = now]

rendering_finished(m, elapsed, scope) ==
  LET m1 == IF elapsed > threshold_ms
              THEN emit_anomaly(m, elapsed, scope)
              ELSE m
  IN  [m1 EXCEPT !.last_rendering_time_ms = elapsed]

RECURSIVE call_rendering_finished(_, _, _, _)
call_rendering_finished(m, elapsed, scope, n) ==
  IF n = 0 THEN m
  ELSE call_rendering_finished(rendering_finished(m, elapsed, scope),
                               elapsed, scope, n - 1)

(* ---------------------------------------------------------------------- *)
(* Meter: start_measuring, stop_measuring, cleanup                         *)
(* ---------------------------------------------------------------------- *)
\* Room left within the bounds of the model for one more start.
CanStart(m) ==
  /\ cls = MainThreadHealthChecker => FreeIds(m) # {}
  /\ cls = MapRenderingMeter =>
       m.render_started_slots < MaxSlots /\ m.render_finished_slots < MaxSlots

start_measuring(m) ==
  IF supports_continuous_measuring(cls)
    THEN LET m1 == [m EXCEPT !.is_measuring = TRUE]
         IN  IF cls = MainThreadHealthChecker
               THEN thread_start_measuring(m1)
               ELSE rendering_start_measuring(m1)
    ELSE m

start_measuring_result(m) == supports_continuous_measuring(cls)

stop_measuring(m) ==
  LET m1 == [m EXCEPT !.is_measuring = FALSE]
  IN  CASE cls = MainThreadHealthChecker -> thread_stop_measuring(m1)
        [] cls = MapRenderingMeter -> rendering_stop_measuring(m1)
        [] OTHER -> m1

cleanup(m) ==
  [stop_measuring(m) EXCEPT !.profiler_slots = disconnect(@),
                            !.connected_to_profiler = FALSE]

(* ---------------------------------------------------------------------- *)
(* Settings.profiler_enabled                                               *)
(* ---------------------------------------------------------------------- *)
\* Python values a setting can yield: a bool, or the str of the environment.
Bool(b) == [type |-> "bool", b |-> b]
Str(x) == [type |-> "str", s |-> x]

\* bool(value), as `not value` applies it.
truthy(v) == IF v.type = "bool" THEN v.b ELSE v.s # ""

\* QGIS_PROFILER_ENABLED: unset, or set by the user to switch profiling off.
Environ == {None, Some("false")}

\* meter_enabled: recovery_meter_enabled, thread_health_checker_enabled and
\* map_rendering_meter_enabled, by the class of the meter they switch.
NewSettings(environ) ==
  [profiler_enabled |-> TRUE, cache |-> None, environ |-> environ,
   meter_enabled |-> [c \in MeterClasses |-> TRUE]]

\* Setting.get for profiler_enabled.
get(st) ==
  IF st.environ # None THEN Str(st.environ[1]) ELSE Bool(st.profiler_enabled)

\* Setting.get_with_cache: the value cached for the current time slot, read
\* with get() when the slot has none yet.
get_with_cache(st) == IF st.cache = None THEN get(st) ELSE st.cache[1]
after_get_with_cache(st) == [st EXCEPT !.cache = Some(get_with_cache(st))]

\* Setting.set: the stored value changes, the cache is left as it is.
set(st, value) == [st EXCEPT !.profiler_enabled = value]

(* ---------------------------------------------------------------------- *)
(* ProfilerWrapper over QgsRuntimeProfiler                                 *)
(* ---------------------------------------------------------------------- *)
ExtraGroup == "New group"
Groups == {ActiveGroup, ExtraGroup}
InvalidId == 0         \* "invalid", returned by end() for an untracked group
NoParent == 0          \* a top-level entry of the profiler tree

\* nodes: the entries of QgsRuntimeProfiler, by event id; stack: its stack of
\* started and not yet ended entries per group; groups: the groups it knows,
\* which are those an entry was started or recorded in; profiler_events: the
\* defaultdict of the wrapper, None for a group without key.
NewProfiler ==
  [next_id |-> 1,
   nodes |-> <<>>,
   groups |-> {},
   stack |-> [g \in Groups |-> <<>>],
   profiler_events |-> [g \in Groups |-> None]]

Last(q) == q[Len(q)]
ButLast(q) == SubSeq(q, 1, Len(q) - 1)

\* self._profiler_events[group].append(event_id)
track(events, group, event_id) ==
  [events EXCEPT ![group] = IF @ = None THEN Some(<<event_id>>)
                            ELSE Some(Append(@[1], event_id))]

current_parent(p, group) ==
  IF p.stack[group] = <<>> THEN NoParent ELSE Last(p.stack[group])

\* ProfilerWrapper.start; uuid4 yields an id that was never used before.
start_result(p) == p.next_id
start(p, name, group) ==
  LET event_id == p.next_id
  IN  [p EXCEPT !.next_id = @ + 1,
                !.nodes = Append(@, [name |-> name, group |-> group,
                                     parent |-> current_parent(p, group),
                                     kind |-> "event"]),
                !.stack[group] = Append(@, event_id),
                !.groups = @ \cup {group},
                !.profiler_events = track(@, group, event_id)]

\* ProfilerWrapper.add_record: an entry with its time, not put on the stack.
add_record(p, name, group) ==
  LET event_id == p.next_id
  IN  [p EXCEPT !.next_id = @ + 1,
                !.nodes = Append(@, [name |-> name, group |-> group,
                                     parent |-> current_parent(p, group),
                                     kind |-> "record"]),
                !.groups = @ \cup {group},
                !.profiler_events = track(@, group, event_id)]

\* QgsRuntimeProfiler.end: the innermost started entry of the group ends;
\* nothing happens when the group has none.
end(p, group) ==
  [p EXCEPT !.stack[group] = IF @ = <<>> THEN @ ELSE ButLast(@)]

\* The value ProfilerWrapper.end returns.
end_result(p, group) ==
  IF p.profiler_events[group] = None THEN InvalidId
  ELSE Last(p.profiler_events[group][1])

\* ProfilerWrapper.end raises IndexError after it has ended the entry: the
\* group has a key in _profiler_events, so that the default is not used, and
\* its list is empty.
end_raises(p, group) == p.profiler_events[group] = Some(<<>>)

\* The entry that end(group) ends, if any.
ended_by_end(p, group) ==
  IF p.stack[group] = <<>> THEN None ELSE Some(Last(p.stack[group]))

\* QgsRuntimeProfiler.groupIsActive
is_profiling(p, group) == p.stack[group] # <<>>

\* ProfilerWrapper.end_all
RECURSIVE end_all(_, _)
end_all(p, group) ==
  IF is_profiling(p, group) THEN end_all(end(p, group), group) ELSE p

\* event_id in self._profiler_events[group]
tracked(p, event_id, group) ==
  /\ p.profiler_events[group] # None
  /\ \E i \in DOMAIN p.profiler_events[group][1] :
       p.profiler_events[group][1][i] = event_id

\* ProfilerWrapper.get_event_time: the lookup in the defaultdict gives a
\* group without key the key and an empty list.
get_event_time_raises(p, event_id, group) == ~tracked(p, event_id, group)
get_event_time(p, event_id, group) ==
  [p EXCEPT !.profiler_events[group] = IF @ = None THEN Some(<<>>) ELSE @]

(* ---------------------------------------------------------------------- *)
(* ProfilerEventRecorder                                                   *)
(* ---------------------------------------------------------------------- *)
\* The buttons of profiler_test_utils.utils.Dialog, by their text.
Buttons == {"Click Me", "Click Me too"}
\* The name SimpleMapToolConfig gives its events: the class of the map tool.
MapToolName == "QgsMapToolDigitizeFeature"
\* The names of recorded events: a button, or the map tool in use.
EventNames == Buttons \cup {MapToolName}
NoConnection == 0      \* no entry of _connections, no connection of clicked

\* connections: the dict _connections, by button name, holding the
\* connection that button.clicked.connect returned; clicked_slots: the
\* connections of the recorder's slot that each button's clicked signal has;
\* posted: StopProfilingEvents posted to the main window; started, finished:
\* emissions of event_started(name) and event_finished(name).
NewRecorder ==
  [group |-> ActiveGroup,
   recording |-> FALSE,
   filter_installed |-> FALSE,
   connections |-> [b \in Buttons |-> NoConnection],
   clicked_slots |-> [b \in Buttons |-> {}],
   map_tool_set_slots |-> 0,
   posted |-> <<>>,
   started |-> [b \in EventNames |-> 0],
   finished |-> [b \in EventNames |-> 0]]

\* The recorder and the profiler it drives, as one value.
World(r, p) == [r |-> r, p |-> p]

\* _start_profiling
start_profiling(w, name) ==
  World([w.r EXCEPT !.started[name] = @ + 1], start(w.p, name, w.r.group))

\* _stop_profiling
stop_profiling(w, name, group) ==
  World([w.r EXCEPT !.finished[name] = @ + 1], end(w.p, group))

\* _catch_button_events for a MouseButtonRelease over the button `name`.
\* The new connection is identified by the id of the event started with it.
catch_button_events(w, name) ==
  IF w.r.connections[name] = NoConnection
    THEN LET connection == start_result(w.p)
             w1 == World([w.r EXCEPT !.connections[name] = connection,
                                     !.clicked_slots[name] = @ \cup {connection}],
                         w.p)
         IN  start_profiling(w1, name)
    ELSE w

\* eventFilter called `seen` times for one mouse release over a button.
RECURSIVE event_filter(_, _, _)
event_filter(w, name, seen) ==
  IF seen = 0 THEN w
  ELSE event_filter(catch_button_events(w, name), name, seen - 1)

\* _post_stop_profiling_event
post_stop_profiling_event(r, name) ==
  [r EXCEPT !.posted = Append(@, [name |-> name, group |-> r.group])]

\* _stop_profiling_after_signal_is_emitted: pop raises KeyError for a name
\* that _connections does not hold, and the disconnect is not reached.
stop_profiling_after_signal_is_emitted(r, name) ==
  LET r1 == post_stop_profiling_event(r, name)
      connection == r1.connections[name]
  IN  IF connection = NoConnection THEN r1
      ELSE [r1 EXCEPT !.connections[name] = NoConnection,
                      !.clicked_slots[name] = @ \ {connection}]

\* start_recording, with the _map_tool_changed call it makes.
start_recording(w) ==
  World([w.r EXCEPT !.filter_installed = TRUE,
                    !.map_tool_set_slots = @ + 1,
                    !.recording = TRUE],
        end_all(w.p, w.r.group))

\* The loop of stop_recording over _connections.items().
disconnect_all_keeps(r) == r
disconnect_all(r) ==
  [r EXCEPT !.clicked_slots =
              [b \in Buttons |-> r.clicked_slots[b] \ {r.connections[b]}]]

\* stop_recording
stop_recording_unguarded(w) ==
  LET r1 == disconnect_all([w.r EXCEPT !.filter_installed = FALSE])
  IN  World([r1 EXCEPT !.map_tool_set_slots = disconnect(@),
                       !.connections = [b \in Buttons |-> NoConnection],
                       !.recording = FALSE],
            end_all(w.p, w.r.group))
stop_recording(w) ==
  IF ~w.r.recording THEN w
  ELSE LET r1 == disconnect_all([w.r EXCEPT !.filter_installed = FALSE])
       IN  World([r1 EXCEPT !.map_tool_set_slots = disconnect(@),
                            !.connections = [b \in Buttons |-> NoConnection],
                            !.recording = FALSE],
                 end_all(w.p, w.r.group))

(* ---------------------------------------------------------------------- *)
(* Initial state: the singleton right after construction                   *)
(* ---------------------------------------------------------------------- *)
NewMeter ==
  [context_stack |-> <<>>,
   enabled |-> TRUE,
   connected_to_profiler |-> FALSE,
   is_measuring |-> FALSE,
   profiler_slots |-> 0,
   poller |-> NoPoller,
   polling_thread |-> NoPoller,
   last_delay_ms |-> 0,
   pollers |-> [p \in PollerIds |-> FreePoller],
   elapsed_timer |-> Invalid,
   last_rendering_time_ms |-> 0,
   render_started_slots |-> 0,
   render_finished_slots |-> 0,
   emitted |-> <<>>,
   profiler_records |-> <<>>]

(* ---------------------------------------------------------------------- *)
(* Map tool configurations: CustomEventFilter, SimpleMapToolConfig         *)
(* ---------------------------------------------------------------------- *)
MaxResponses == 4

START_PROFILING == "START_PROFILING"
STOP_PROFILING == "STOP_PROFILING"
STOP_PROFILING_DELAYED == "STOP_PROFILING_DELAYED"
START_AND_STOP_DELAYED == "START_AND_STOP_DELAYED"

NoButton == "NoButton"
MouseTypes == {"MouseButtonPress", "MouseButtonRelease"}

\* The events and the objects that receive them, as far as a filter can
\* tell them apart: type, mouse button, and the receiving object.
QEvent(type, button) == [type |-> type, button |-> button]
isinstance_QMouseEvent(event) == event.type \in MouseTypes
FilteredEvents ==
  {QEvent("MouseButtonRelease", "RightButton"),
   QEvent("MouseButtonRelease", "LeftButton"),
   QEvent("Show", NoButton),
   QEvent("KeyPress", NoButton)}
FilteredObjects == {"viewport", "featureactiondlg", "sample_object"}

\* The predicates on the receiving object that the configurations use.
object_filter_holds(object_filter, obj) ==
  CASE object_filter = "is_object_map_canvas" -> obj = "viewport"
    [] object_filter = "is_feature_action_dialog" -> obj = "featureactiondlg"
    [] OTHER -> FALSE

\* `instance` tells a filter built from a QEvent from one built from a
\* QEvent.Type.
CustomEventFilter(instance, type, button, object_filter, stop_after_responsive) ==
  [instance |-> instance, type |-> type, button |-> button,
   object_filter |-> object_filter,
   stop_after_responsive |-> stop_after_responsive]

event_matches(f, event) ==
  IF f.instance
    THEN IF event.type # f.type
           THEN FALSE
           ELSE isinstance_QMouseEvent(event) /\ event.button = f.button
    ELSE event.type = f.type

CustomEventFilter_matches(f, event, obj) ==
  IF ~event_matches(f, event)
    THEN FALSE
    ELSE \/ f.object_filter = None
         \/ object_filter_holds(f.object_filter[1], obj)

\* The filters of the default configuration of QgsMapToolDigitizeFeature, of
\* the click configurations, and filters on an event type alone.
mouse_right_button_release ==
  CustomEventFilter(TRUE, "MouseButtonRelease", "RightButton", None, FALSE)
feature_dialog_shown ==
  CustomEventFilter(FALSE, "Show", NoButton,
                    Some("is_feature_action_dialog"), TRUE)
mouse_left_button_release ==
  CustomEventFilter(TRUE, "MouseButtonRelease", "LeftButton",
                    Some("is_object_map_canvas"), FALSE)
EventFilters ==
  {mouse_right_button_release, feature_dialog_shown,
   mouse_left_button_release,
   CustomEventFilter(FALSE, "MouseButtonRelease", NoButton, None, FALSE),
   CustomEventFilter(FALSE, "MouseButtonRelease", NoButton, None, TRUE)}

\* `responses` lists what matches() has answered, None left out, since the
\* configuration was constructed or activated last.
SimpleMapToolConfig(start_event_filter, stop_event_filter) ==
  [start_event_filter |-> start_event_filter,
   stop_event_filter |-> stop_event_filter,
   profiling_started |-> FALSE,
   responses |-> <<>>]

activate(c) == [c EXCEPT !.profiling_started = FALSE, !.responses = <<>>]

SimpleMapToolConfig_response(c, event, obj) ==
  IF ~c.profiling_started
       /\ CustomEventFilter_matches(c.start_event_filter, event, obj)
    THEN Some(START_PROFILING)
    ELSE IF c.profiling_started
              /\ CustomEventFilter_matches(c.stop_event_filter, event, obj)
           THEN IF c.stop_event_filter.stop_after_responsive
                  THEN Some(STOP_PROFILING_DELAYED)
                  ELSE Some(STOP_PROFILING)
           ELSE None

SimpleMapToolConfig_matches_keeps_started(c, event, obj) ==
  LET response == SimpleMapToolConfig_response(c, event, obj)
  IN  IF response = None
        THEN c
        ELSE [c EXCEPT !.profiling_started = TRUE,
                       !.responses = @ \o response]

SimpleMapToolConfig_matches(c, event, obj) ==
  LET response == SimpleMapToolConfig_response(c, event, obj)
  IN  IF response = None
        THEN c
        ELSE [c EXCEPT !.profiling_started =
                          (response = Some(START_PROFILING)),
                       !.responses = @ \o response]

(* ---------------------------------------------------------------------- *)
(* ProfilerExtension and the meter singletons it configures                *)
(* ---------------------------------------------------------------------- *)
\* The order in which _reset_meters lists the meters.
MeterOrder == <<RecoveryMeasurer, MainThreadHealthChecker, MapRenderingMeter>>
MeterSettings == [MeterClasses -> BOOLEAN]

NoCalls ==
  [cleanup |-> 0, reset_parameters |-> 0, connect_to_profiler |-> 0,
   start_measuring |-> 0, stop_measuring |-> 0]

\* A meter singleton, by the fields of Meter; calls: the calls that the last
\* operation of ProfilerExtension made on it.
NewSingleton ==
  [context_stack |-> <<>>,
   enabled |-> TRUE,
   connected_to_profiler |-> FALSE,
   profiler_slots |-> 0,
   is_measuring |-> FALSE,
   calls |-> NoCalls]

called(m, method) == [m EXCEPT !.calls[method] = @ + 1]
uncalled(s) == [c \in MeterClasses |-> [s[c] EXCEPT !.calls = NoCalls]]

\* Meter.start_measuring, Meter.stop_measuring and Meter.cleanup on the
\* fields of Meter.
Meter_start_measuring(c, m) ==
  IF supports_continuous_measuring(c)
    THEN [m EXCEPT !.is_measuring = TRUE]
    ELSE m

Meter_stop_measuring(m) == [m EXCEPT !.is_measuring = FALSE]

Meter_cleanup(m) ==
  [Meter_stop_measuring(m) EXCEPT !.profiler_slots = disconnect(@),
                                  !.connected_to_profiler = FALSE]

\* reset_parameters of the three meters: enabled follows the setting.
reset_parameters(st, c, m) == [m EXCEPT !.enabled = st.meter_enabled[c]]

\* Meter.measure on the fields of Meter: a one-shot measurement of
\* MainThreadHealthChecker starts measuring and cleans up, one of
\* MapRenderingMeter starts measuring.
Meter_measure(c, m) ==
  IF ~m.enabled THEN m
  ELSE IF c = MainThreadHealthChecker /\ ~m.is_measuring
         THEN Meter_cleanup(Meter_start_measuring(c, m))
       ELSE IF c = MapRenderingMeter /\ ~m.is_measuring
         THEN Meter_start_measuring(c, m)
       ELSE m

\* combo_box_items, combo_box_text: the groups that the profiler panel
\* offers and the one it shows; event_started_slots, event_finished_slots:
\* connections of the widget's handlers to the signals of the recorder.
NoExtension ==
  [exists |-> FALSE,
   meters |-> <<>>,
   meters_group |-> MetersGroup,
   event_started_slots |-> 0,
   event_finished_slots |-> 0,
   button_record_checked |-> FALSE,
   combo_box_items |-> {},
   combo_box_text |-> ""]

\* The widget with everything its operations reach: e the widget, s the
\* meter singletons, r the recorder, p the profiler, c the configuration of
\* the map tool in use.
Plugin(e, s, r, p, c) == [e |-> e, s |-> s, r |-> r, p |-> p, c |-> c]

listed(e, c) == \E i \in DOMAIN e.meters : e.meters[i] = c

\* QgsRuntimeProfiler.clear(group) removes the entries of the group.
Cleared == [name |-> "", group |-> "", parent |-> NoParent, kind |-> "cleared"]

\* ProfilerWrapper.clear: three times end(group), the first of which may
\* raise, then the entries of the group are removed and its key is popped.
\* QgsRuntimeProfiler.clear leaves the stack of started entries alone.
clear_raises(p, group) == end_raises(p, group)
clear(p, group) ==
  LET p3 == end(end(end(p, group), group), group)
  IN  IF clear_raises(p, group) THEN end(p, group)
      ELSE [p3 EXCEPT !.nodes = [i \in DOMAIN p3.nodes |->
                                   IF p3.nodes[i].group = group
                                     THEN Cleared
                                     ELSE p3.nodes[i]],
                      !.profiler_events[group] = None]

\* ProfilerWrapper.clear_all with the groups of the profiler in the order
\* the iteration over the set yields them; an exception of clear ends it.
RECURSIVE clear_all(_, _)
clear_all(p, order) ==
  IF order = <<>> THEN [p |-> p, raised |-> FALSE]
  ELSE IF Head(order) \notin p.groups THEN clear_all(p, Tail(order))
  ELSE IF clear_raises(p, Head(order))
         THEN [p |-> clear(p, Head(order)), raised |-> TRUE]
  ELSE clear_all(clear(p, Head(order)), Tail(order))

\* ProfilerWrapper.create_group
create_group(p, group) ==
  clear(end(start(p, "Temporary message", group), group), group)

\* ProfilerEventRecorder.start_recording with the activation of the
\* configuration of the current map tool in _map_tool_changed.
recorder_start_recording(w) ==
  LET rw == start_recording(World(w.r, w.p))
  IN  [w EXCEPT !.r = rw.r, !.p = rw.p, !.c = activate(w.c)]

\* _start_recording
extension_start_recording(w) ==
  LET w1 == recorder_start_recording(w)
  IN  [w1 EXCEPT !.s = [c \in MeterClasses |->
                          IF listed(w.e, c) /\ supports_continuous_measuring(c)
                            THEN called(Meter_start_measuring(c, w.s[c]),
                                        "start_measuring")
                            ELSE w.s[c]]]

\* _stop_recording
extension_stop_recording(w) ==
  LET rw == stop_recording(World(w.r, w.p))
  IN  [w EXCEPT !.r = rw.r, !.p = rw.p,
                !.s = [c \in MeterClasses |->
                         IF listed(w.e, c) /\ supports_continuous_measuring(c)
                           THEN called(Meter_stop_measuring(w.s[c]),
                                       "stop_measuring")
                           ELSE w.s[c]]]

\* ProfilerExtension.cleanup
extension_cleanup(w) ==
  LET w1 == IF w.r.recording THEN extension_stop_recording(w) ELSE w
  IN  [w1 EXCEPT !.s = [c \in MeterClasses |->
                          IF listed(w.e, c)
                            THEN called(Meter_cleanup(w1.s[c]), "cleanup")
                            ELSE w1.s[c]],
                 !.e.meters = <<>>,
                 !.e.event_finished_slots = disconnect(@)]

\* Variant: _reset_meters lists every meter, whatever the settings say.
reset_meters_lists_all(w, st) ==
  LET w1 == extension_cleanup(w)
      configured(c) ==
        called(connect_to_profiler(called(reset_parameters(st, c, w1.s[c]),
                                          "reset_parameters")),
               "connect_to_profiler")
  IN  [w1 EXCEPT !.e.meters = MeterOrder,
                 !.e.meters_group = MetersGroup,
                 !.e.event_finished_slots = @ + 1,
                 !.e.event_started_slots = @ + 1,
                 !.s = [c \in MeterClasses |-> configured(c)]]

\* _reset_meters
reset_meters(w, st) ==
  LET w1 == extension_cleanup(w)
      is_enabled(c) == st.meter_enabled[c]
      configured(c) ==
        called(connect_to_profiler(called(reset_parameters(st, c, w1.s[c]),
                                          "reset_parameters")),
               "connect_to_profiler")
  IN  [w1 EXCEPT !.e.meters = SelectSeq(MeterOrder, is_enabled),
                 !.e.meters_group = MetersGroup,
                 !.e.event_finished_slots = @ + 1,
                 !.e.event_started_slots = @ + 1,
                 !.s = [c \in MeterClasses |->
                          IF is_enabled(c)
                            THEN configured(c)
                            ELSE [w1.s[c] EXCEPT !.enabled = FALSE]]]

\* _update_ui_state, the record button
update_ui_state(w) == [w EXCEPT !.e.button_record_checked = w.r.recording]

\* Variant: _toggle_recording without the final _update_ui_state.
toggle_recording_keeps_ui_state(w) ==
  IF ~w.r.recording
    THEN LET w1 == IF w.r.group \notin w.e.combo_box_items
                     THEN [w EXCEPT !.p = create_group(w.p, w.r.group),
                                    !.e.combo_box_items = @ \cup {w.r.group}]
                     ELSE w
         IN  extension_start_recording(
               [w1 EXCEPT !.e.combo_box_text = w.r.group])
    ELSE extension_stop_recording(w)

\* _toggle_recording
toggle_recording(w) ==
  update_ui_state(
    IF ~w.r.recording
      THEN LET w1 == IF w.r.group \notin w.e.combo_box_items
                       THEN [w EXCEPT !.p = create_group(w.p, w.r.group),
                                      !.e.combo_box_items = @ \cup {w.r.group}]
                       ELSE w
           IN  extension_start_recording(
                 [w1 EXCEPT !.e.combo_box_text = w.r.group])
      ELSE extension_stop_recording(w))

\* _event_recorder_event_started
event_recorder_event_started(w, event_name) ==
  [w EXCEPT !.s = [c \in MeterClasses |->
                     IF listed(w.e, c)
                       THEN add_context(w.s[c], event_name, w.e.meters_group)
                       ELSE w.s[c]]]

\* _event_recorder_event_finished
event_recorder_event_finished(w) ==
  [w EXCEPT !.s = [c \in MeterClasses |->
                     IF listed(w.e, c)
                       THEN pop_context(Meter_measure(c, w.s[c]))
                       ELSE w.s[c]]]

\* event_started.emit and event_finished.emit: every connection calls the
\* handler of the widget once.
RECURSIVE emit_event_started(_, _, _)
emit_event_started(w, event_name, n) ==
  IF n = 0 THEN w
  ELSE emit_event_started(event_recorder_event_started(w, event_name),
                          event_name, n - 1)

RECURSIVE emit_event_finished(_, _)
emit_event_finished(w, n) ==
  IF n = 0 THEN w
  ELSE emit_event_finished(event_recorder_event_finished(w), n - 1)

\* _start_profiling and _stop_profiling with the handlers of the signals.
recorder_start_profiling(w, name) ==
  LET w1 == emit_event_started(w, name, w.e.event_started_slots)
      rw == start_profiling(World(w1.r, w1.p), name)
  IN  [w1 EXCEPT !.r = rw.r, !.p = rw.p]

recorder_stop_profiling(w, name, group) ==
  LET rw == stop_profiling(World(w.r, w.p), name, group)
  IN  emit_event_finished([w EXCEPT !.r = rw.r, !.p = rw.p],
                          w.e.event_finished_slots)

\* _catch_map_tool_events for the configuration of the map tool in use; the
\* general configurations match wheel and middle-button events only.
catch_map_tool_events(w, event, obj) ==
  LET response == SimpleMapToolConfig_response(w.c, event, obj)
      w1 == [w EXCEPT !.c = SimpleMapToolConfig_matches(w.c, event, obj)]
  IN  IF response = Some(START_PROFILING)
        THEN recorder_start_profiling(w1, MapToolName)
      ELSE IF response = Some(STOP_PROFILING)
        THEN recorder_stop_profiling(w1, MapToolName, w1.r.group)
      ELSE IF response = Some(STOP_PROFILING_DELAYED)
        THEN [w1 EXCEPT !.r = post_stop_profiling_event(w1.r, MapToolName)]
      ELSE w1

(* ---------------------------------------------------------------------- *)
(* MacroRecorder                                                           *)
(* ---------------------------------------------------------------------- *)
MaxRecorded == 2       \* recorded events followed per recording
MaxPositions == 2      \* positions followed per recorded mouse movement
MaxMacroTime == 1      \* ms followed on the clock of a recording
MaxHeld == 2           \* keys and mouse buttons held down at a time

Keys == {"Key_A", "Key_B"}
MouseButtons == {"LeftButton", "RightButton"}
Modifiers == {"NoModifier", "ShiftModifier"}
\* Global positions, by the widget that QApplication.widgetAt finds there.
Positions == {"button", "canvas", "panel"}
\* QMouseEvent.buttons(): the set of the buttons held down; Qt.NoButton
NoButtons == {}

KeyTypes == {"KeyPress", "KeyRelease"}
MouseButtonTypes == {"MouseButtonPress", "MouseButtonRelease"}
MouseEventTypes ==
  MouseButtonTypes \cup {"MouseButtonDblClick", "MouseMove"}

\* The QKeyEvents and QMouseEvents that reach the application.
QKeyEvent(type, key, modifiers) ==
  [type |-> type, key |-> key, modifiers |-> modifiers]
QMouseEvent(type, button, buttons, pos, modifiers) ==
  [type |-> type, button |-> button, buttons |-> buttons,
   globalPos |-> pos, modifiers |-> modifiers]

MacroKeyEvent(ms_since_last_event, key, is_release, modifiers) ==
  [class |-> "MacroKeyEvent", ms_since_last_event |-> ms_since_last_event,
   key |-> key, is_release |-> is_release, modifiers |-> modifiers]
MacroMouseEvent(ms_since_last_event, position, is_release, button, modifiers) ==
  [class |-> "MacroMouseEvent", ms_since_last_event |-> ms_since_last_event,
   position |-> position, is_release |-> is_release, button |-> button,
   modifiers |-> modifiers]
MacroMouseDoubleClickEvent(ms_since_last_event, position, button, modifiers) ==
  [class |-> "MacroMouseDoubleClickEvent",
   ms_since_last_event |-> ms_since_last_event,
   position |-> position, button |-> button, modifiers |-> modifiers]
MacroMouseMoveEvent(ms_since_last_event, positions, buttons, modifiers) ==
  [class |-> "MacroMouseMoveEvent",
   ms_since_last_event |-> ms_since_last_event,
   positions |-> positions, buttons |-> buttons, modifiers |-> modifiers]

\* MacroMouseMoveEvent.add_position
add_position(e, position) ==
  IF e.positions # <<>> /\ position = Last(e.positions)
    THEN e
    ELSE [e EXCEPT !.positions = Append(@, position)]

\* timer: the time at which _timer was restarted last.
\* macro_events: the list object that is the event list of the Macro that
\* stop_recording returned last, if it has returned one.
MacroRecorder(filter_out_mouse_movements, widgets) ==
  [recorded_events |-> <<>>,
   timer |-> Invalid,
   last_record_time |-> 0,
   recording |-> FALSE,
   filter_out_mouse_movements |-> filter_out_mouse_movements,
   widgets_to_filter_events_out |-> widgets,
   macro_events |-> None]

macro_start_recording(r, t) ==
  [r EXCEPT !.recorded_events = <<>>, !.recording = TRUE, !.timer = t]

\* _get_filtered_events
get_filtered_events(r) ==
  IF r.recorded_events = <<>> THEN <<>>
  ELSE LET first_element == r.recorded_events[1]
       IN  IF first_element.class = "MacroMouseMoveEvent"
             THEN <<MacroMouseMoveEvent(0, <<Last(first_element.positions)>>,
                                        NoButtons, "NoModifier")>>
                  \o Tail(r.recorded_events)
             ELSE r.recorded_events

\* Speed factors are counted in halves: 1.0, the default of Macro.speed and
\* of MacroPlayer's playback_speed, is 2.
DefaultSpeed == 2

\* The Macro that stop_recording returns, with the default name and speed.
Macro(events) == [events |-> events, name |-> None, speed |-> DefaultSpeed]

macro_stop_recording(r) ==
  [r EXCEPT !.recording = FALSE,
            !.macro_events = IF r.filter_out_mouse_movements
                               THEN Some("filtered_events")
                               ELSE Some("_recorded_events")]
macro_stop_recording_result(r) ==
  Macro(IF r.filter_out_mouse_movements
          THEN get_filtered_events(r)
          ELSE r.recorded_events)

\* The most recent recorded event of a class, if any: the loops of
\* _record_key_event and _record_mouse_button_event.
previous_event(events, class) ==
  LET found == {i \in DOMAIN events : events[i].class = class}
  IN  IF found = {} THEN None
      ELSE Some(events[CHOOSE i \in found : \A j \in found : j <= i])

record_key_event(r, event, elapsed) ==
  LET macro_event == MacroKeyEvent(elapsed, event.key,
                                   event.type = "KeyRelease", event.modifiers)
      previous == previous_event(r.recorded_events, "MacroKeyEvent")
  IN  IF /\ previous # None
         /\ previous[1].key = macro_event.key
         /\ previous[1].is_release = macro_event.is_release
        THEN r
        ELSE [r EXCEPT !.recorded_events = Append(@, macro_event)]

record_mouse_button_event(r, event, elapsed) ==
  LET macro_event == MacroMouseEvent(elapsed, event.globalPos,
                                     event.type = "MouseButtonRelease",
                                     event.button, event.modifiers)
      previous == previous_event(r.recorded_events, "MacroMouseEvent")
  IN  IF /\ previous # None
         /\ previous[1].button = macro_event.button
         /\ previous[1].is_release = macro_event.is_release
        THEN r
        ELSE [r EXCEPT !.recorded_events = Append(@, macro_event)]

record_mouse_button_double_click_event(r, event, elapsed) ==
  [r EXCEPT !.recorded_events =
     Append(@, MacroMouseDoubleClickEvent(elapsed, event.globalPos,
                                          event.button, event.modifiers))]

record_mouse_move_event(r, event) ==
  IF r.recorded_events # <<>>
       /\ Last(r.recorded_events).class = "MacroMouseMoveEvent"
    THEN [r EXCEPT !.recorded_events[Len(r.recorded_events)] =
                     add_position(@, event.globalPos)]
    ELSE [r EXCEPT !.recorded_events =
            Append(@, MacroMouseMoveEvent(0, <<event.globalPos>>,
                                          event.buttons, event.modifiers))]

\* MacroRecorder.eventFilter at time t
macro_event_filter(r, event, t) ==
  IF ~r.recording THEN r
  ELSE LET elapsed == t - r.timer
           ms_since_last_event == elapsed - r.last_record_time
           r1 == [r EXCEPT !.last_record_time = elapsed]
       IN  IF /\ event.type \in MouseEventTypes
              /\ event.globalPos \in r.widgets_to_filter_events_out
             THEN r1
           ELSE IF event.type \in KeyTypes
             THEN record_key_event(r1, event, ms_since_last_event)
           ELSE IF event.type \in MouseButtonTypes
             THEN record_mouse_button_event(r1, event, ms_since_last_event)
           ELSE IF event.type = "MouseButtonDblClick"
             THEN record_mouse_button_double_click_event(
                    r1, event, ms_since_last_event)
           ELSE IF event.type = "MouseMove"
             THEN record_mouse_move_event(r1, event)
           ELSE r1

\* The application-wide filter sees one event `seen` times.
RECURSIVE macro_event_filter_seen(_, _, _, _)
macro_event_filter_seen(r, event, t, seen) ==
  IF seen = 0 THEN r
  ELSE macro_event_filter_seen(macro_event_filter(r, event, t), event, t,
                               seen - 1)

\* The keys and mouse buttons that the user holds down, the mouse press that
\* was the last thing the user did (with the number of events recorded before
\* it), and the click that the user has just completed with a release of the
\* same button at the same place.
NoInput == [held |-> {}, press |-> None, click |-> None]

(* ---------------------------------------------------------------------- *)
(* MacroPlayer                                                             *)
(* ---------------------------------------------------------------------- *)
MaxMs == 1             \* largest ms_since_last_event of a played event
MaxMacroEvents == 2    \* events per played macro
MaxPlayDepth == 2      \* calls of play in progress, one inside the other
MaxPlayClock == 5      \* ms followed on the clock of a playback

\* 0.5 and 2.0, in halves
Speeds == {1, 4}

\* frames: the calls of play in progress, the innermost last.
MacroPlayer(playback_speed) ==
  [speed |-> playback_speed, timer |-> Invalid, frames |-> <<>>]

\* A call of play at the head of its loop. Next to the locals of the call
\* (the macro, playback_speed in quarters, the index of the loop) the frame
\* keeps the indices of the events performed and the time at which the last
\* action finished (at first: the time of the call).
play_frame(p, macro, t) ==
  [macro |-> macro,
   playback_speed |-> p.speed * macro.speed,
   index |-> 1,
   stage |-> "for",
   performed |-> <<>>,
   finished_at |-> t]

\* Variant: the while loop of play never waits.
play_waits_never(p, f, t) == FALSE

\* The condition of the while loop of play at time t, for frame f:
\* _timer.elapsed() < event.ms_since_last_event * playback_speed
play_waits(p, f, t) ==
  4 * (t - p.timer)
    < f.macro.events[f.index].ms_since_last_event * f.playback_speed

\* One step of the innermost call of play at time t, which has an event left
\* to perform: the timer is restarted, the loop is left when the time is up,
\* the events of the application are processed once more, the action of the
\* event begins, the action returns.
play_step(p, t) ==
  LET n == Len(p.frames)
      f == p.frames[n]
  IN  IF f.stage = "for"
        THEN [p EXCEPT !.timer = t, !.frames[n].stage = "while"]
      ELSE IF f.stage = "while"
        THEN IF play_waits(p, f, t)
               THEN p
               ELSE [p EXCEPT !.frames[n].stage = "processEvents"]
      ELSE IF f.stage = "processEvents"
        THEN [p EXCEPT !.frames[n].stage = "perform_event_action",
                       !.frames[n].performed = Append(@, f.index)]
      ELSE [p EXCEPT !.frames[n].stage = "for",
                     !.frames[n].index = @ + 1,
                     !.frames[n].finished_at = t]

\* The macros that are played: their events differ in the time to wait.
RECURSIVE PlayedEvents(_)
PlayedEvents(n) ==
  IF n = 0 THEN {<<>>}
  ELSE LET shorter == PlayedEvents(n - 1)
       IN  shorter \cup
           {Append(events, MacroKeyEvent(ms, "Key_A", FALSE, "NoModifier")) :
              events \in {e \in shorter : Len(e) = n - 1}, ms \in 0..MaxMs}
PlayedMacros ==
  {[Macro(events) EXCEPT !.speed = speed] :
     events \in PlayedEvents(MaxMacroEvents), speed \in Speeds}

(* ---------------------------------------------------------------------- *)
(* ProfilerResult.parse_from_text                                          *)
(* ---------------------------------------------------------------------- *)
MaxLines == 4          \* lines of a profiler text after the group name
MaxDashes == 3         \* dashes in front of the name of a line

\* The names and durations of the lines; names are written as sequences of
\* characters and words.
LineContents ==
  {[name |-> <<"Task A">>, duration |-> 1],
   [name |-> <<"Task", "-", "B">>, duration |-> 2]}

\* The line "<dashes> <name>: <duration>" of the text of a group, and the
\* first line of the text, which holds the name of the group.
TextLine(dashes, name, duration) ==
  [dashes |-> dashes, name |-> name, duration |-> duration]
GroupLine(group) == [dashes |-> 0, name |-> <<group>>, duration |-> None]

\* line.count("-")
count_dashes(line) ==
  line.dashes + Cardinality({i \in DOMAIN line.name : line.name[i] = "-"})

\* parts[0].strip("- ").strip(): the dashes in front of the name go, and so
\* do dashes at either end of the name itself.
RECURSIVE strip_dashes(_)
strip_dashes(name) ==
  IF name = <<>> THEN name
  ELSE IF Head(name) = "-" THEN strip_dashes(Tail(name))
  ELSE IF Last(name) = "-"
    THEN strip_dashes(SubSeq(name, 1, Len(name) - 1))
  ELSE name

ProfilerResult(name, group, duration, children) ==
  [name |-> name, group |-> group, duration |-> duration,
   children |-> children]

\* frames: the calls of parse_lines in progress, the innermost last, each
\* with its level, its results and the line whose children it has asked for.
NoParser ==
  [text |-> <<>>, group |-> "Plugins", lines |-> <<>>, frames |-> <<>>,
   returned |-> None]
parse_lines_call(level) ==
  [level |-> level, results |-> <<>>, line |-> None]

\* parse_from_text up to the call of parse_lines: text.splitlines()[1:]
parse_from_text(p) ==
  [p EXCEPT !.lines = IF p.text = <<>> THEN <<>> ELSE Tail(p.text),
            !.frames = <<parse_lines_call(1)>>]

\* The innermost call of parse_lines stays in its loop: there is a line left
\* and it is not of a parent level.
parse_lines_loops(p) ==
  /\ p.frames # <<>>
  /\ p.lines # <<>>
  /\ count_dashes(p.lines[1]) >= Last(p.frames).level

\* One round of the while loop for a line that is not of a parent level.
parse_lines_round(p) ==
  LET n == Len(p.frames)
      line == p.lines[1]
  IN  IF count_dashes(line) = p.frames[n].level
        THEN [p EXCEPT !.lines = Tail(@),
                       !.frames = Append([@ EXCEPT ![n].line = Some(line)],
                                         parse_lines_call(p.frames[n].level
                                                          + 1))]
        ELSE p

\* Variant: the results of a call are handed to the caller as results of its
\* own level.
parse_lines_return_flat(p) ==
  LET n == Len(p.frames)
      results == p.frames[n].results
  IN  IF n = 1
        THEN [p EXCEPT !.frames = <<>>, !.returned = Some(results)]
        ELSE LET line == p.frames[n - 1].line[1]
                 result == ProfilerResult(strip_dashes(line.name), p.group,
                                          line.duration, <<>>)
             IN  [p EXCEPT !.frames =
                    [SubSeq(@, 1, n - 1) EXCEPT
                       ![n - 1].results = Append(@, result) \o results,
                       ![n - 1].line = None]]

\* The innermost call of parse_lines returns its results: to the call that
\* asked for the children of a line, which appends the result of the line,
\* or to parse_from_text.
parse_lines_return(p) ==
  LET n == Len(p.frames)
      results == p.frames[n].results
  IN  IF n = 1
        THEN [p EXCEPT !.frames = <<>>, !.returned = Some(results)]
        ELSE LET line == p.frames[n - 1].line[1]
                 result == ProfilerResult(strip_dashes(line.name), p.group,
                                          line.duration, results)
             IN  [p EXCEPT !.frames =
                    [SubSeq(@, 1, n - 1) EXCEPT
                       ![n - 1].results = Append(@, result),
                       ![n - 1].line = None]]

\* The texts that are parsed: the name of the group and up to MaxLines lines.
RECURSIVE TextLines(_)
TextLines(n) ==
  IF n = 0 THEN {<<>>}
  ELSE LET shorter == TextLines(n - 1)
       IN  shorter \cup
           {Append(lines, TextLine(dashes, content.name, content.duration)) :
              lines \in {l \in shorter : Len(l) = n - 1},
              dashes \in 0..MaxDashes, content \in LineContents}
ProfilerTexts(group) ==
  {<<>>} \cup {<<GroupLine(group)>> \o lines : lines \in TextLines(MaxLines)}

\* The tools of the plugin as they are constructed.
ToolInit ==
  /\ macro_recorder = MacroRecorder(TRUE, {"panel"})
  /\ input = NoInput
  /\ macro_player = MacroPlayer(DefaultSpeed)
  /\ parser = NoParser

\* The recorder and the meters are used without the widget of the plugin.
PluginInit ==
  /\ config = SimpleMapToolConfig(mouse_right_button_release,
                                  feature_dialog_shown)
  /\ extension = NoExtension
  /\ singletons = [c \in MeterClasses |-> NewSingleton]
  /\ ToolInit

Init ==
  /\ cls \in MeterClasses
  /\ meter = NewMeter
  /\ poll_queue = <<>>
  /\ canvas_rendering = FALSE
  /\ now = 0
  /\ call_stack = <<>>
  /\ added = <<>>
  /\ last_return = NoReturn
  /\ settings = NewSettings(None)
  /\ profiler = NewProfiler
  /\ recorder = NewRecorder
  /\ PluginInit

(* ---------------------------------------------------------------------- *)
(* Clock                                                                   *)
(* ---------------------------------------------------------------------- *)
\* A one-shot rendering measurement may wait for its whole timeout.
Steps ==
  {1} \cup IF ~Idle /\ Top.type = "measure" /\ cls = MapRenderingMeter
             THEN {LongStep}
             ELSE {}

\* Time is followed while a timer of the meter is running and will be read.
Timing ==
  \/ ~Idle /\ Top.type \in {"measure", "recovery"}
  \/ poll_queue # <<>>
  \/ \E p \in PollerIds : meter.pollers[p].state # "free"
  \/ canvas_rendering

\* A recovery measurement is followed until its timeout has passed and one
\* more batch has run.
TickBound ==
  IF cls = RecoveryMeasurer THEN MaxTicks + RecoveryTimeoutMs ELSE MaxTicks

Tick ==
  /\ Timing
  /\ TicksUsed < TickBound
  /\ \E d \in Steps : now' = now + d
  /\ meter' = Forget(meter)
  /\ last_return' = Forgotten
  /\ UNCHANGED <<profiler_vars, cls, poll_queue, canvas_rendering, call_stack, added>>

(* ---------------------------------------------------------------------- *)
(* Calls of the meter's interface from application code.  The body of a    *)
(* scoped block or of a monitored function measures, enables or disables   *)
(* the meter and opens further blocks; the other calls are made from       *)
(* handlers that the idle event loop runs.                                 *)
(* ---------------------------------------------------------------------- *)
SetEnabled ==
  /\ InUserCode
  /\ \E b \in BOOLEAN : meter' = [Fresh(meter) EXCEPT !.enabled = b]
  /\ last_return' = NoReturn
  /\ UNCHANGED <<profiler_vars, cls, poll_queue, canvas_rendering, now, call_stack, added>>

\* add_context and pop_context called directly, outside any scoped block.
AddContext ==
  /\ Idle
  /\ Len(meter.context_stack) < MaxStack
  /\ \E c \in Contexts :
       /\ meter' = add_context(Fresh(meter), c.name, c.group)
       /\ added' = Append(added, c)
  /\ last_return' = NoReturn
  /\ UNCHANGED <<profiler_vars, cls, poll_queue, canvas_rendering, now, call_stack>>

PopContext ==
  /\ Idle
  /\ meter' = pop_context(Fresh(meter))
  /\ last_return' = [op |-> "pop_context",
                     value |-> pop_context_result(meter),
                     expected |-> IF added = <<>> THEN None
                                  ELSE Some(added[Len(added)])]
  /\ added' = IF added = <<>> THEN added ELSE SubSeq(added, 1, Len(added) - 1)
  /\ UNCHANGED <<profiler_vars, cls, poll_queue, canvas_rendering, now, call_stack>>

ConnectToProfiler ==
  /\ Idle
  /\ meter.profiler_slots < MaxSlots
  /\ meter' = connect_to_profiler(Fresh(meter))
  /\ last_return' = NoReturn
  /\ UNCHANGED <<profiler_vars, cls, poll_queue, canvas_rendering, now, call_stack, added>>

StartMeasuring ==
  /\ Idle
  /\ CanStart(meter)
  /\ meter' = start_measuring(Fresh(meter))
  /\ last_return' = [op |-> "start_measuring",
                     value |-> Some(start_measuring_result(meter))]
  /\ UNCHANGED <<profiler_vars, cls, poll_queue, canvas_rendering, now, call_stack, added>>

StopMeasuring ==
  /\ Idle
  /\ meter' = stop_measuring(Fresh(meter))
  /\ last_return' = [op |-> "stop_measuring", value |-> None]
  /\ UNCHANGED <<profiler_vars, cls, poll_queue, canvas_rendering, now, call_stack, added>>

Cleanup ==
  /\ Idle
  /\ meter' = cleanup(Fresh(meter))
  /\ last_return' = [op |-> "cleanup", value |-> None]
  /\ UNCHANGED <<profiler_vars, cls, poll_queue, canvas_rendering, now, call_stack, added>>

(* ---------------------------------------------------------------------- *)
(* Meter.measure with the three _measure implementations                   *)
(* ---------------------------------------------------------------------- *)
\* measure() returns `duration`; anomaly_detected is emitted when _measure
\* reported an anomaly.  `frames` is the call stack measure() returns to.
MeasureReturns(m, duration, anomaly_detected, frames) ==
  /\ meter' = IF anomaly_detected
                THEN emit_anomaly(m, duration, scope_of(frames))
                ELSE m
  /\ call_stack' = frames
  /\ last_return' = [op |-> "measure", value |-> Some(duration)]

\* The measurement is answered from the value of the continuous measurement.
AnswersFromLast(m) ==
  \/ cls = MainThreadHealthChecker /\ m.poller # NoPoller
  \/ cls = MapRenderingMeter /\ m.is_measuring

\* measure() called with `frames` as the call stack to return to.
MeasureCall(frames) ==
  LET m == Fresh(meter)
  IN  IF ~enabled(m)
        THEN /\ meter' = m
             /\ call_stack' = frames
             /\ last_return' = [op |-> "measure", value |-> None]
      ELSE IF cls = RecoveryMeasurer
        THEN /\ meter' = m
             /\ call_stack' = Append(frames, [type |-> "recovery", t0 |-> now,
                                              batch_start |-> now,
                                              over_threshold |-> FALSE,
                                              batches |-> 0])
             /\ last_return' = NoReturn
      ELSE IF AnswersFromLast(m)
        THEN IF cls = MainThreadHealthChecker
               THEN MeasureReturns(m, m.last_delay_ms,
                                   m.last_delay_ms > threshold_ms, frames)
               ELSE MeasureReturns(m, m.last_rendering_time_ms,
                                   m.last_rendering_time_ms > threshold_ms,
                                   frames)
      ELSE /\ CanStart(m)
           /\ meter' = IF cls = MainThreadHealthChecker
                         THEN start_measuring([m EXCEPT !.last_delay_ms = 0])
                         ELSE start_measuring(
                                [m EXCEPT !.last_rendering_time_ms = 0])
           /\ call_stack' = Append(frames, [type |-> "measure", t0 |-> now])
           /\ last_return' = NoReturn

Measure ==
  /\ InUserCode
  /\ MeasureCall(call_stack)
  /\ UNCHANGED <<profiler_vars, cls, poll_queue, canvas_rendering, now, added>>

\* MainThreadHealthChecker._measure leaves its wait loop.
ThreadMeasureReturn ==
  /\ ~Idle
  /\ Top.type = "measure"
  /\ cls = MainThreadHealthChecker
  /\ \/ meter.last_delay_ms # 0
     \/ now - Top.t0 >= PollIntervalMs * 2
  /\ LET m == cleanup(meter)
     IN  MeasureReturns(m, m.last_delay_ms, m.last_delay_ms > threshold_ms,
                        Below)
  /\ UNCHANGED <<profiler_vars, cls, poll_queue, canvas_rendering, now, added>>

\* MapRenderingMeter._measure leaves its wait loop; rendering_time is in
\* seconds and is compared with _threshold_ms * 1000.
rendering_time_ms(m) ==
  IF m.last_rendering_time_ms # 0
    THEN m.last_rendering_time_ms
    ELSE RenderTimeoutS * MsPerSecond

rendering_anomaly(m) ==
  rendering_time_ms(m) > (threshold_ms * MsPerSecond) * MsPerSecond

RenderingMeasureReturn ==
  /\ ~Idle
  /\ Top.type = "measure"
  /\ cls = MapRenderingMeter
  /\ \/ meter.last_rendering_time_ms # 0
     \/ now - Top.t0 >= RenderTimeoutS * MsPerSecond
  /\ MeasureReturns(meter, rendering_time_ms(meter), rendering_anomaly(meter),
                    Below)
  /\ UNCHANGED <<profiler_vars, cls, poll_queue, canvas_rendering, now, added>>

\* Variant: the wait loop does not look at the timeout.
wait_for_recovery_ignoring_timeout(recovery_time, elapsed) ==
  recovery_time > threshold_ms
\* RecoveryMeasurer._wait_for_recovery: the loop goes on to another batch.
wait_for_recovery_continues(recovery_time, elapsed) ==
  recovery_time > threshold_ms /\ ~(elapsed > RecoveryTimeoutMs)

\* RecoveryMeasurer._wait_for_recovery: one batch of processEvents() calls
\* has taken now - batch_start.  `batches` counts the batches that have run.
RecoveryBatch ==
  /\ ~Idle
  /\ Top.type = "recovery"
  /\ LET recovery_time == now - Top.batch_start
         elapsed == now - Top.t0
         over_threshold == Top.over_threshold \/ recovery_time > threshold_ms
     IN  IF wait_for_recovery_continues(recovery_time, elapsed)
           THEN /\ call_stack' = Append(Below,
                                   [Top EXCEPT !.batch_start = now,
                                               !.over_threshold = TRUE,
                                               !.batches = @ + 1])
                /\ UNCHANGED <<meter, last_return>>
           ELSE MeasureReturns(meter, elapsed, over_threshold, Below)
  /\ UNCHANGED <<profiler_vars, cls, poll_queue, canvas_rendering, now, added>>

(* ---------------------------------------------------------------------- *)
(* ThreadPoller, on its worker thread                                      *)
(* ---------------------------------------------------------------------- *)
\* ThreadPoller._run_polling past its guard: restart the timer, emit poll.
\* The poll signal is queued for the main thread while it is connected.
RunPolling(p) ==
  /\ meter.pollers[p].connected => Len(poll_queue) < MaxQueue
  /\ meter' = [Forget(meter) EXCEPT !.pollers[p].state = "running",
                                    !.pollers[p].polling_active = TRUE,
                                    !.pollers[p].elapsed_start = now]
  /\ last_return' = Forgotten
  /\ poll_queue' = IF meter.pollers[p].connected
                     THEN Append(poll_queue, now)
                     ELSE poll_queue
  /\ UNCHANGED <<profiler_vars, cls, canvas_rendering, now, call_stack, added>>

\* ThreadPoller.start, run when the thread has started.
PollerStart ==
  \E p \in PollerIds :
    /\ meter.pollers[p].state = "starting"
    /\ RunPolling(p)

\* The QTimer of the poller fires: _run_polling.
PollerTimeout ==
  \E p \in PollerIds :
    /\ meter.pollers[p].state = "running"
    /\ ~meter.pollers[p].polling_active
    /\ now - meter.pollers[p].elapsed_start >= PollIntervalMs
    /\ RunPolling(p)

(* ---------------------------------------------------------------------- *)
(* Events dispatched on the main thread                                    *)
(* ---------------------------------------------------------------------- *)
OnPollEvent ==
  /\ InProcessEvents
  /\ poll_queue # <<>>
  /\ poll_queue' = Tail(poll_queue)
  /\ IF meter.poller = NoPoller
       THEN /\ meter' = on_poll_event(Fresh(meter), 0, scope_of(call_stack))
            /\ last_return' = NoReturn
       ELSE \E elapsed \in ElapsedValues(meter.pollers[meter.poller].elapsed_start) :
              /\ meter' = on_poll_event(Fresh(meter), elapsed,
                                        scope_of(call_stack))
              /\ last_return' = [op |-> "on_poll_event",
                                 value |-> Some(elapsed),
                                 since_emission |-> now - Head(poll_queue)]
  /\ UNCHANGED <<profiler_vars, cls, canvas_rendering, now, call_stack, added>>

\* The canvas emits renderStarting.
RenderStarting ==
  /\ cls = MapRenderingMeter
  /\ InProcessEvents
  /\ ~canvas_rendering
  /\ canvas_rendering' = TRUE
  /\ meter' = IF meter.render_started_slots > 0
                THEN rendering_started(Fresh(meter))
                ELSE Fresh(meter)
  /\ last_return' = NoReturn
  /\ UNCHANGED <<profiler_vars, cls, poll_queue, now, call_stack, added>>

\* The canvas emits mapCanvasRefreshed.
MapCanvasRefreshed ==
  /\ cls = MapRenderingMeter
  /\ InProcessEvents
  /\ canvas_rendering
  /\ canvas_rendering' = FALSE
  /\ IF meter.render_finished_slots = 0
       THEN /\ meter' = Fresh(meter)
            /\ last_return' = NoReturn
       ELSE \E elapsed \in ElapsedValues(meter.elapsed_timer) :
              /\ meter' = call_rendering_finished(Fresh(meter), elapsed,
                                                  scope_of(call_stack),
                                                  meter.render_finished_slots)
              /\ last_return' = [op |-> "rendering_finished",
                                 value |-> Some(elapsed)]
  /\ UNCHANGED <<profiler_vars, cls, poll_queue, now, call_stack, added>>

(* ---------------------------------------------------------------------- *)
(* Meter.context: the scoped block                                         *)
(* ---------------------------------------------------------------------- *)
EnterContext ==
  /\ InUserCode
  /\ CanNest
  /\ Len(meter.context_stack) < MaxStack
  /\ \E c \in Contexts :
       /\ meter' = add_context(Fresh(meter), c.name, c.group)
       /\ added' = Append(added, c)
       /\ call_stack' = Append(call_stack,
                               [type |-> "context", ctx |-> c,
                                entry |-> meter.context_stack])
       /\ last_return' = [op |-> "enter_context",
                          value |-> Some(current_context_of(meter'))]
  /\ UNCHANGED <<profiler_vars, cls, poll_queue, canvas_rendering, now>>

\* The body of the block ends, by falling through or by raising.
LeaveContext ==
  /\ ~Idle
  /\ Top.type = "context"
  /\ meter' = pop_context(meter)
  /\ added' = IF added = <<>> THEN added ELSE SubSeq(added, 1, Len(added) - 1)
  /\ call_stack' = Below
  /\ \E raised \in BOOLEAN :
       last_return' = [op |-> "leave_context", value |-> None,
                       entry |-> Top.entry, raised |-> raised]
  /\ UNCHANGED <<profiler_vars, cls, poll_queue, canvas_rendering, now>>

(* ---------------------------------------------------------------------- *)
(* Meter.monitor: the decorator                                            *)
(* ---------------------------------------------------------------------- *)
RECURSIVE join(_)
join(parts) ==
  IF parts = <<>> THEN ""
  ELSE IF Len(parts) = 1 THEN parts[1]
  ELSE parts[1] \o ", " \o join(Tail(parts))

RECURSIVE arg_values(_, _)
arg_values(event_args, arg_dict) ==
  IF event_args = <<>> THEN <<>>
  ELSE LET event_arg == Head(event_args)
           rest == arg_values(Tail(event_args), arg_dict)
       IN  IF event_arg \in DOMAIN arg_dict
             THEN <<event_arg \o "=" \o arg_dict[event_arg]>> \o rest
             ELSE rest

\* qgis_profiler.utils.parse_arguments for arguments without "self." prefix.
parse_arguments(event_args, arg_dict) ==
  "(" \o join(arg_values(event_args, arg_dict)) \o ")"

resolve_group_name_with_cache(group) ==
  IF group # None THEN group[1] ELSE ActiveGroup

\* Decorated functions: the decorator's arguments and the call's arguments.
\* name_and_group_set is decorated with start_continuous_measuring=False so
\* that its measurement after the call is a one-shot measurement.
MonitoredFunctions ==
  { [function |-> "name_args_set", name |-> None,
     group |-> None, name_args |-> <<"a", "b">>,
     connect_to_profiler |-> TRUE, start_continuous_measuring |-> TRUE,
     measure_after_call |-> TRUE, args |-> [a |-> "1", b |-> "2"]],
    [function |-> "monitor_thread_health", name |-> None,
     group |-> None, name_args |-> <<>>,
     connect_to_profiler |-> TRUE, start_continuous_measuring |-> TRUE,
     measure_after_call |-> FALSE, args |-> <<>>],
    [function |-> "name_and_group_set", name |-> Some("foo"),
     group |-> Some("bar"), name_args |-> <<>>,
     connect_to_profiler |-> TRUE, start_continuous_measuring |-> FALSE,
     measure_after_call |-> TRUE, args |-> [a |-> "1", b |-> "2"]] }

Results == {3}

context_name(f) ==
  LET base == IF f.name # None THEN f.name[1] ELSE f.function
  IN  IF f.name_args # <<>>
        THEN base \o parse_arguments(f.name_args, f.args)
        ELSE base

\* Variant: the wrapper pushes its context without looking at the flag.
monitor_enter_unguarded(m, f) ==
  add_context(m, context_name(f), resolve_group_name_with_cache(f.group))
\* The wrapper up to the call of the wrapped function.
monitor_enter(m, f) ==
  LET m1 == IF f.connect_to_profiler /\ ~m.connected_to_profiler
              THEN connect_to_profiler(m)
              ELSE m
      m2 == add_context(m1, context_name(f),
                        resolve_group_name_with_cache(f.group))
  IN  IF ~enabled(m) THEN m
      ELSE IF /\ f.start_continuous_measuring
              /\ supports_continuous_measuring(cls)
              /\ ~m2.is_measuring
        THEN start_measuring(m2)
        ELSE m2

MonitorCall ==
  /\ InUserCode
  /\ CanCall
  /\ \E f \in MonitoredFunctions :
       LET ctx == MeterContext(context_name(f),
                               resolve_group_name_with_cache(f.group))
           frame == [type |-> "monitor", phase |-> "body",
                     active |-> enabled(meter), ctx |-> ctx,
                     entry |-> meter.context_stack,
                     measure_after_call |-> f.measure_after_call,
                     result |-> None]
       IN  /\ call_stack' = Append(call_stack, frame)
           /\ meter' = monitor_enter(Fresh(meter), f)
           /\ IF ~meter.enabled
                THEN added' = added
                ELSE /\ Len(meter.context_stack) < MaxStack
                     /\ meter.profiler_slots < MaxSlots
                     /\ CanStart(meter)
                     /\ added' = Append(added, ctx)
  /\ last_return' = NoReturn
  /\ UNCHANGED <<profiler_vars, cls, poll_queue, canvas_rendering, now>>

\* The wrapped function returns a result or raises.
MonitorFunctionEnds ==
  /\ ~Idle
  /\ Top.type = "monitor"
  /\ Top.phase = "body"
  /\ \E result \in {Some(r) : r \in Results} \cup {None} :
       IF Top.active
         THEN /\ call_stack' = Append(Below, [Top EXCEPT
                                                !.phase = "process_events",
                                                !.result = result])
              /\ last_return' = NoReturn
         ELSE /\ call_stack' = Below
              /\ last_return' = [op |-> "monitor", value |-> result,
                                 raised |-> result = None,
                                 entry |-> Top.entry, active |-> FALSE]
  /\ UNCHANGED <<profiler_vars, cls, meter, poll_queue, canvas_rendering, now, added>>

\* QgsApplication.processEvents() of the finally clause has returned.
MonitorAfterEvents ==
  /\ ~Idle
  /\ Top.type = "monitor"
  /\ Top.phase = "process_events"
  /\ LET frames == Append(Below, [Top EXCEPT !.phase = "exit"])
     IN  IF Top.measure_after_call
           THEN MeasureCall(frames)
           ELSE /\ call_stack' = frames
                /\ UNCHANGED <<meter, last_return>>
  /\ UNCHANGED <<profiler_vars, cls, poll_queue, canvas_rendering, now, added>>

\* The scoped block of the wrapper is left and the wrapper returns.
MonitorReturn ==
  /\ ~Idle
  /\ Top.type = "monitor"
  /\ Top.phase = "exit"
  /\ meter' = pop_context(meter)
  /\ added' = IF added = <<>> THEN added ELSE SubSeq(added, 1, Len(added) - 1)
  /\ call_stack' = Below
  /\ last_return' = [op |-> "monitor", value |-> Top.result,
                     raised |-> Top.result = None,
                     entry |-> Top.entry, active |-> TRUE]
  /\ UNCHANGED <<profiler_vars, cls, poll_queue, canvas_rendering, now>>

(* ---------------------------------------------------------------------- *)
(* Specification                                                           *)
(* ---------------------------------------------------------------------- *)
(* ProfilerWrapper and the @profile decorator, as application code uses    *)
(* them on the main thread                                                 *)
(* ---------------------------------------------------------------------- *)
\* Room left within the bounds of the model for one more event id.
CanRecord == profiler.next_id <= MaxEvents

\* The body of a `with profiler.profile(...)` block is running, or the body
\* of add_complex, which calls further profiled functions.
InProfiledBody ==
  /\ ~Idle
  /\ \/ Top.type = "profile"
     \/ Top.type = "profiled" /\ Top.function = "add_complex"

CanProfile == Idle \/ (InProfiledBody /\ Len(call_stack) < MaxDepth)

\* ProfilerWrapper.start(name, group) called directly.
Start ==
  /\ Idle /\ CanRecord
  /\ \E group \in Groups :
       /\ profiler' = start(profiler, "test", group)
       /\ last_return' = [op |-> "start", group |-> group,
                          value |-> Some(start_result(profiler))]
  /\ UNCHANGED <<meter_vars, plugin_vars, recorder, call_stack, settings>>

\* ProfilerWrapper.end(group) called directly.
End ==
  /\ Idle
  /\ \E group \in Groups :
       /\ profiler' = end(profiler, group)
       /\ last_return' = [op |-> "end", group |-> group,
                          value |-> Some(end_result(profiler, group)),
                          ended |-> ended_by_end(profiler, group)]
  /\ UNCHANGED <<meter_vars, plugin_vars, recorder, call_stack, settings>>

\* ProfilerWrapper.add_record(name, group, time) called directly.
AddRecord ==
  /\ Idle /\ CanRecord
  /\ \E group \in Groups :
       /\ profiler' = add_record(profiler, "added_record", group)
       /\ last_return' = [op |-> "add_record", group |-> group,
                          value |-> Some(start_result(profiler))]
  /\ UNCHANGED <<meter_vars, plugin_vars, recorder, call_stack, settings>>

\* `with profiler.profile(name, group) as event_id:` is entered.
ProfileEnter ==
  /\ CanProfile /\ CanRecord
  /\ \E g \in {None} \cup {Some(x) : x \in Groups} :
       LET group == resolve_group_name_with_cache(g)
       IN  /\ profiler' = start(profiler, "some_function", group)
           /\ call_stack' =
                Append(call_stack,
                       [type |-> "profile", group |-> group,
                        event_id |-> start_result(profiler),
                        open_before |-> Len(profiler.stack[group])])
  /\ last_return' = NoReturn
  /\ UNCHANGED <<meter_vars, plugin_vars, recorder, settings>>

\* The finally clause of profile(): with or without an exception of the body.
profile_exit_skips_raised(p, group, raised) == IF raised THEN p ELSE end(p, group)
profile_exit(p, group, raised) == end(p, group)

\* The block is left, normally or by an exception raised in its body.
ProfileExit ==
  /\ ~Idle /\ Top.type = "profile"
  /\ \E raised \in BOOLEAN :
       /\ profiler' = profile_exit(profiler, Top.group, raised)
       /\ last_return' = [op |-> "profile", raised |-> raised,
                          value |-> Some(Top.event_id),
                          ended |-> ended_by_end(profiler, Top.group)]
  /\ call_stack' = Below
  /\ UNCHANGED <<meter_vars, plugin_vars, recorder, settings>>

\* Functions decorated with @profile (profiler_test_utils.DecoratorTester).
ProfiledFunctions ==
  { [function |-> "add", name |-> None, group |-> None],
    [function |-> "add_with_name_kwarg", name |-> Some("Add numbers"),
     group |-> None],
    [function |-> "add_with_group_kwarg", name |-> None,
     group |-> Some(ExtraGroup)],
    [function |-> "add_complex", name |-> None, group |-> None] }

\* add_complex calls add and add_with_name_kwarg; the body of a with block
\* and the top level call any of the functions.
Callable(f) ==
  \/ Idle
  \/ ~Idle /\ Top.type = "profile"
  \/ /\ ~Idle /\ Top.type = "profiled" /\ Top.function = "add_complex"
     /\ f.function \in {"add", "add_with_name_kwarg"}

event_name(f) == IF f.name # None THEN f.name[1] ELSE f.function

\* The wrapper of @profile up to the call of the function.
wrapper_enabled_unchecked(st) == TRUE
wrapper_enabled(st) == truthy(get_with_cache(st))

ProfiledCall ==
  /\ CanProfile /\ CanRecord
  /\ \E f \in ProfiledFunctions :
       /\ Callable(f)
       /\ LET enabled_now == wrapper_enabled(settings)
              group_name == resolve_group_name_with_cache(f.group)
          IN  /\ profiler' = IF enabled_now
                               THEN start(profiler, event_name(f), group_name)
                               ELSE profiler
              /\ call_stack' =
                   Append(call_stack,
                          [type |-> "profiled", function |-> f.function,
                           group |-> group_name, profiling |-> enabled_now,
                           setting |-> settings.profiler_enabled,
                           event_id |-> IF enabled_now
                                          THEN start_result(profiler)
                                          ELSE InvalidId])
  /\ settings' = after_get_with_cache(settings)
  /\ last_return' = NoReturn
  /\ UNCHANGED <<meter_vars, plugin_vars, recorder>>

\* The finally clause of the wrapper, which runs when it started an event.
wrapper_finally_skips_raised(p, profiling, group, raised) ==
  IF profiling /\ ~raised THEN end(p, group) ELSE p
wrapper_finally(p, profiling, group, raised) ==
  IF profiling THEN end(p, group) ELSE p

\* The function returns or raises, and the wrapper with it.
ProfiledReturn ==
  /\ ~Idle /\ Top.type = "profiled"
  /\ \E raised \in BOOLEAN :
       /\ last_return' = [op |-> "profiled", function |-> Top.function,
                          raised |-> raised,
                          value |-> IF raised THEN None ELSE Some(3),
                          profiling |-> Top.profiling,
                          started |-> Top.event_id]
       /\ profiler' = wrapper_finally(profiler, Top.profiling, Top.group,
                                      raised)
  /\ call_stack' = Below
  /\ UNCHANGED <<meter_vars, plugin_vars, recorder, settings>>

\* Settings.profiler_enabled.set(value), from the settings dialog.
SetProfilerEnabled ==
  /\ Idle \/ InProfiledBody
  /\ \E value \in BOOLEAN :
       /\ value # settings.profiler_enabled
       /\ settings' = set(settings, value)
  /\ UNCHANGED <<meter_vars, plugin_vars, recorder, call_stack, last_return, profiler>>

\* time.time() / CACHE_INTERVAL reaches the next integer: get_with_cache
\* has no value for the new time slot.
CacheExpires ==
  /\ settings.cache # None
  /\ settings' = [settings EXCEPT !.cache = None]
  /\ UNCHANGED <<meter_vars, plugin_vars, recorder, call_stack, last_return, profiler>>

(* ---------------------------------------------------------------------- *)
(* ProfilerEventRecorder: recording, clicks and posted events              *)
(* ---------------------------------------------------------------------- *)
\* The main thread dispatches events: from the idle event loop, or from a
\* clicked handler that processes events while it waits (utils.wait).
InClickedHandler == ~Idle /\ Top.type = "clicked"
DispatchingEvents == Idle \/ InClickedHandler

StartRecording ==
  /\ DispatchingEvents
  /\ recorder.map_tool_set_slots < MaxSlots
  /\ LET w == recorder_start_recording(
                Plugin(extension, singletons, recorder, profiler, config))
     IN  recorder' = w.r /\ profiler' = w.p /\ config' = w.c
  /\ last_return' = [op |-> "start_recording", value |-> None]
  /\ UNCHANGED <<meter_vars, tool_vars, extension, singletons, call_stack,
                 settings>>

StopRecording ==
  /\ DispatchingEvents
  /\ LET w == stop_recording(World(recorder, profiler))
     IN  recorder' = w.r /\ profiler' = w.p
  /\ last_return' = [op |-> "stop_recording", value |-> None,
                     recording |-> recorder.recording]
  /\ UNCHANGED <<meter_vars, plugin_vars, call_stack, settings>>

\* A click: the application-wide filter sees the mouse release `seen` times
\* while it is installed, then the button emits clicked and the handlers of
\* the application run.
Click ==
  /\ DispatchingEvents /\ Len(call_stack) < MaxDepth
  /\ \E name \in Buttons, seen \in 1..MaxSeen :
       /\ (recorder.filter_installed
            /\ recorder.connections[name] = NoConnection) => CanRecord
       /\ LET w == IF recorder.filter_installed
                     THEN event_filter(World(recorder, profiler), name, seen)
                     ELSE World(recorder, profiler)
              heard == IF w.r.started[name] > recorder.started[name]
                         THEN emit_event_started(
                                Plugin(extension, singletons, recorder,
                                       profiler, config),
                                name, extension.event_started_slots)
                         ELSE Plugin(extension, singletons, recorder,
                                     profiler, config)
          IN  /\ recorder' = w.r /\ profiler' = w.p
              /\ singletons' = heard.s
              /\ call_stack' =
                   Append(call_stack,
                          [type |-> "clicked", button |-> name,
                           slots |-> w.r.clicked_slots[name]])
  /\ last_return' = NoReturn
  /\ UNCHANGED <<meter_vars, tool_vars, config, extension, settings>>

\* The handlers of the application have returned; the slot of the recorder,
\* connected last, runs for every connection that the signal had when the
\* emission began and that is still connected.
ClickedReturns ==
  /\ InClickedHandler
  /\ recorder' = IF Top.slots \cap recorder.clicked_slots[Top.button] # {}
                   THEN stop_profiling_after_signal_is_emitted(recorder,
                                                               Top.button)
                   ELSE recorder
  /\ call_stack' = Below
  /\ last_return' = NoReturn
  /\ UNCHANGED <<meter_vars, plugin_vars, settings, profiler>>

\* A posted StopProfilingEvent reaches the main window; eventFilter handles
\* it while the filter is installed.
StopProfilingEventDelivered ==
  /\ DispatchingEvents
  /\ recorder.posted # <<>>
  /\ LET event == Head(recorder.posted)
         r1 == [recorder EXCEPT !.posted = Tail(@)]
         w0 == Plugin(extension, singletons, r1, profiler, config)
         w == IF recorder.filter_installed
                THEN recorder_stop_profiling(w0, event.name, event.group)
                ELSE w0
     IN  /\ recorder' = w.r /\ profiler' = w.p /\ singletons' = w.s
         /\ last_return' =
              IF recorder.filter_installed
                THEN [op |-> "stop_profiling", name |-> event.name,
                      value |-> None,
                      ended |-> ended_by_end(profiler, event.group)]
                ELSE NoReturn
  /\ UNCHANGED <<meter_vars, tool_vars, config, extension, call_stack,
                 settings>>

(* ---------------------------------------------------------------------- *)
(* Map tool configuration: activation and events                           *)
(* ---------------------------------------------------------------------- *)
\* The map tool of the configuration is taken into use.
Activate ==
  /\ config' = activate(config)
  /\ last_return' = [op |-> "activate", value |-> None]
  /\ UNCHANGED <<meter_vars, tool_vars, call_stack, settings, profiler,
                 recorder, extension, singletons>>

\* An event reaches the configuration.
Matches ==
  /\ Len(config.responses) < MaxResponses
  /\ \E event \in FilteredEvents, obj \in FilteredObjects :
       /\ config' = SimpleMapToolConfig_matches(config, event, obj)
       /\ last_return' =
            [op |-> "matches", event |-> event, obj |-> obj,
             value |-> SimpleMapToolConfig_response(config, event, obj)]
  /\ UNCHANGED <<meter_vars, tool_vars, call_stack, settings, profiler,
                 recorder, extension, singletons>>

(* ---------------------------------------------------------------------- *)
(* ProfilerExtension: buttons, settings dialog, unloading, map tool events *)
(* ---------------------------------------------------------------------- *)
TheWidget == Plugin(extension, uncalled(singletons), recorder, profiler, config)

\* The record button is pressed.
ToggleRecording ==
  /\ Idle /\ extension.exists
  /\ recorder.map_tool_set_slots < MaxSlots
  /\ (~recorder.recording /\ recorder.group \notin extension.combo_box_items)
       => CanRecord
  /\ LET w == toggle_recording(TheWidget)
     IN  /\ extension' = w.e /\ singletons' = w.s /\ recorder' = w.r
         /\ profiler' = w.p /\ config' = w.c
  /\ last_return' =
       [op |-> "toggle_recording", value |-> None,
        recording |-> recorder.recording,
        create_group |-> recorder.group \notin extension.combo_box_items]
  /\ UNCHANGED <<meter_vars, tool_vars, call_stack, settings>>

\* The settings button is pressed, the user changes which meters are enabled
\* and closes the dialog.
OpenSettings ==
  /\ Idle /\ extension.exists
  /\ extension.event_started_slots < MaxSlots
  /\ \E meter_enabled \in MeterSettings :
       LET st == [settings EXCEPT !.meter_enabled = meter_enabled]
           w == update_ui_state(reset_meters(TheWidget, st))
       IN  /\ settings' = st
           /\ extension' = w.e /\ singletons' = w.s /\ recorder' = w.r
           /\ profiler' = w.p /\ config' = w.c
  /\ last_return' = [op |-> "open_settings", value |-> None,
                     meters |-> extension.meters]
  /\ UNCHANGED <<meter_vars, tool_vars, call_stack>>

\* The plugin is unloaded: cleanup(), and the widget is deleted.
Unload ==
  /\ Idle /\ extension.exists
  /\ LET w == extension_cleanup(TheWidget)
     IN  /\ extension' = [w.e EXCEPT !.exists = FALSE]
         /\ singletons' = w.s /\ recorder' = w.r
         /\ profiler' = w.p /\ config' = w.c
  /\ last_return' = [op |-> "cleanup", value |-> None,
                     meters |-> extension.meters]
  /\ UNCHANGED <<meter_vars, tool_vars, call_stack, settings>>

\* Room within the bounds of the model for one more recorded event.
CanStartEvent ==
  /\ CanRecord
  /\ \A c \in MeterClasses :
       Len(singletons[c].context_stack) + extension.event_started_slots
         <= MaxStack

\* eventFilter for an event that is not over a button.
MapToolEvent ==
  /\ Idle /\ recorder.filter_installed
  /\ \E event \in FilteredEvents, obj \in FilteredObjects :
       LET response == SimpleMapToolConfig_response(config, event, obj)
           w == catch_map_tool_events(
                  Plugin(extension, singletons, recorder, profiler, config),
                  event, obj)
       IN  /\ response # None
           /\ response = Some(START_PROFILING) => CanStartEvent
           /\ response = Some(STOP_PROFILING_DELAYED) =>
                Len(recorder.posted) < MaxQueue
           /\ singletons' = w.s /\ recorder' = w.r
           /\ profiler' = w.p /\ config' = w.c
           /\ last_return' = [op |-> "eventFilter", value |-> response]
  /\ UNCHANGED <<meter_vars, tool_vars, call_stack, settings, extension>>

\* mapToolSet of the canvas: the user takes the map tool into use again.
MapToolChanged ==
  /\ Idle /\ recorder.map_tool_set_slots > 0
  /\ profiler' = end_all(profiler, recorder.group)
  /\ config' = activate(config)
  /\ last_return' = [op |-> "map_tool_changed", value |-> None]
  /\ UNCHANGED <<meter_vars, tool_vars, call_stack, settings, extension,
                 singletons, recorder>>

(* ---------------------------------------------------------------------- *)
(* Macro recording: the user's keyboard and mouse, the record button       *)
(* ---------------------------------------------------------------------- *)
MacroUnchanged ==
  UNCHANGED <<cls, meter, poll_queue, canvas_rendering, call_stack, added,
              settings, profiler, recorder, config, extension, singletons>>

\* Room within the bounds of the model for one more recorded event.
CanRecordMacro == Len(macro_recorder.recorded_events) < MaxRecorded

MacroTick ==
  /\ now < MaxMacroTime
  /\ now' = now + 1
  /\ UNCHANGED <<last_return, tool_vars>>
  /\ MacroUnchanged

MacroStartRecording ==
  /\ macro_recorder' = macro_start_recording(macro_recorder, now)
  /\ input' = [input EXCEPT !.press = None, !.click = None]
  /\ last_return' = [op |-> "MacroRecorder.start_recording", value |-> None]
  /\ UNCHANGED <<now, macro_player, parser>>
  /\ MacroUnchanged

MacroStopRecording ==
  /\ macro_recorder' = macro_stop_recording(macro_recorder)
  /\ input' = [input EXCEPT !.press = None, !.click = None]
  /\ last_return' = [op |-> "MacroRecorder.stop_recording",
                     value |-> Some(macro_stop_recording_result(
                                      macro_recorder))]
  /\ UNCHANGED <<now, macro_player, parser>>
  /\ MacroUnchanged

\* The user presses or releases a key; every object on the way of the event
\* hands it to the application-wide filter.
KeyAction ==
  \E type \in KeyTypes, key \in Keys, modifiers \in Modifiers,
     seen \in 1..MaxSeen :
    LET event == QKeyEvent(type, key, modifiers)
    IN  /\ CanRecordMacro
        /\ (type = "KeyPress") = (key \notin input.held)
        /\ type = "KeyPress" => Cardinality(input.held) < MaxHeld
        /\ macro_recorder' =
             macro_event_filter_seen(macro_recorder, event, now, seen)
        /\ input' = [held |-> IF type = "KeyPress"
                                THEN input.held \cup {key}
                                ELSE input.held \ {key},
                     press |-> None, click |-> None]
        /\ last_return' = [op |-> "MacroRecorder.eventFilter",
                           value |-> None]
        /\ UNCHANGED <<now, macro_player, parser>>
        /\ MacroUnchanged

\* The user presses or releases a mouse button.
MouseButtonAction ==
  \E type \in MouseButtonTypes, button \in MouseButtons, pos \in Positions,
     modifiers \in Modifiers, seen \in 1..MaxSeen :
    LET buttons == IF type = "MouseButtonPress"
                     THEN (input.held \cap MouseButtons) \cup {button}
                     ELSE (input.held \cap MouseButtons) \ {button}
        event == QMouseEvent(type, button, buttons, pos, modifiers)
        pressed == [button |-> button, position |-> pos,
                    modifiers |-> modifiers,
                    before |-> Len(macro_recorder.recorded_events)]
    IN  /\ CanRecordMacro
        /\ (type = "MouseButtonPress") = (button \notin input.held)
        /\ type = "MouseButtonPress" => Cardinality(input.held) < MaxHeld
        /\ macro_recorder' =
             macro_event_filter_seen(macro_recorder, event, now, seen)
        /\ input' =
             IF type = "MouseButtonPress"
               THEN [held |-> input.held \cup {button},
                     press |-> IF macro_recorder.recording
                                 THEN Some(pressed) ELSE None,
                     click |-> None]
               ELSE [held |-> input.held \ {button},
                     press |-> None,
                     click |-> IF /\ input.press # None
                                  /\ input.press[1].button = button
                                  /\ input.press[1].position = pos
                                  /\ input.press[1].modifiers = modifiers
                                 THEN input.press
                                 ELSE None]
        /\ last_return' = [op |-> "MacroRecorder.eventFilter",
                           value |-> None]
        /\ UNCHANGED <<now, macro_player, parser>>
        /\ MacroUnchanged

\* The second press of a double click reaches the application as a
\* MouseButtonDblClick.
MouseDoubleClick ==
  \E button \in MouseButtons, pos \in Positions, modifiers \in Modifiers,
     seen \in 1..MaxSeen :
    LET buttons == (input.held \cap MouseButtons) \cup {button}
        event == QMouseEvent("MouseButtonDblClick", button, buttons, pos,
                             modifiers)
    IN  /\ CanRecordMacro
        /\ button \notin input.held
        /\ Cardinality(input.held) < MaxHeld
        /\ macro_recorder' =
             macro_event_filter_seen(macro_recorder, event, now, seen)
        /\ input' = [held |-> input.held \cup {button},
                     press |-> None, click |-> None]
        /\ last_return' = [op |-> "MacroRecorder.eventFilter",
                           value |-> None]
        /\ UNCHANGED <<now, macro_player, parser>>
        /\ MacroUnchanged

\* The user moves the mouse.
MouseMove ==
  \E pos \in Positions, modifiers \in Modifiers, seen \in 1..MaxSeen :
    LET event == QMouseEvent("MouseMove", NoButton,
                             input.held \cap MouseButtons, pos, modifiers)
        after == macro_event_filter_seen(macro_recorder, event, now, seen)
    IN  /\ CanRecordMacro
        /\ \A i \in DOMAIN after.recorded_events :
             after.recorded_events[i].class = "MacroMouseMoveEvent"
               => Len(after.recorded_events[i].positions) <= MaxPositions
        /\ macro_recorder' = after
        /\ input' = [input EXCEPT !.press = None, !.click = None]
        /\ last_return' = [op |-> "MacroRecorder.eventFilter",
                           value |-> None]
        /\ UNCHANGED <<now, macro_player, parser>>
        /\ MacroUnchanged

(* ---------------------------------------------------------------------- *)
(* Macro playback                                                          *)
(* ---------------------------------------------------------------------- *)
PlayUnchanged ==
  UNCHANGED <<cls, meter, poll_queue, canvas_rendering, call_stack, added,
              settings, profiler, recorder, config, extension, singletons,
              macro_recorder, input, parser>>

\* Time passes while a macro is played.
PlayTick ==
  /\ macro_player.frames # <<>>
  /\ now < MaxPlayClock
  /\ now' = now + 1
  /\ UNCHANGED <<last_return, macro_player>>
  /\ PlayUnchanged

\* play is called: by the play button of the panel when no macro is played,
\* and, while one is played, out of processEvents or out of the action of an
\* event that presses the button, for the macro that is still selected.
Play ==
  \E macro \in PlayedMacros :
    /\ Len(macro_player.frames) < MaxPlayDepth
    /\ macro_player.frames # <<>>
         => /\ Last(macro_player.frames).stage
                 \in {"while", "processEvents", "perform_event_action"}
            /\ macro = Last(macro_player.frames).macro
    /\ macro_player' =
         [macro_player EXCEPT !.frames = Append(@, play_frame(macro_player,
                                                              macro, now))]
    /\ UNCHANGED <<now, last_return>>
    /\ PlayUnchanged

\* The innermost call of play goes on.
PlayStep ==
  /\ macro_player.frames # <<>>
  /\ LET f == Last(macro_player.frames)
     IN  /\ f.index <= Len(f.macro.events)
         /\ f.stage = "while" => ~play_waits(macro_player, f, now)
  /\ macro_player' = play_step(macro_player, now)
  /\ UNCHANGED <<now, last_return>>
  /\ PlayUnchanged

\* The innermost call of play has gone through the events and returns.
PlayReturn ==
  /\ macro_player.frames # <<>>
  /\ LET f == Last(macro_player.frames)
     IN  /\ f.index > Len(f.macro.events)
         /\ last_return' = [op |-> "MacroPlayer.play", value |-> None,
                            events |-> Len(f.macro.events),
                            performed |-> f.performed]
  /\ macro_player' = [macro_player EXCEPT !.frames = SubSeq(@, 1, Len(@) - 1)]
  /\ UNCHANGED now
  /\ PlayUnchanged

(* ---------------------------------------------------------------------- *)
(* Parsing the text of a profiler group                                    *)
(* ---------------------------------------------------------------------- *)
ParserUnchanged ==
  UNCHANGED <<meter_vars, call_stack, last_return, settings, profiler, recorder, config, extension,
              singletons,
              macro_recorder, input, macro_player>>

ParseFromText ==
  /\ parser.frames = <<>>
  /\ parser.returned = None
  /\ parser' = parse_from_text(parser)
  /\ ParserUnchanged

\* The while loop of the innermost parse_lines goes round once.
ParseLinesRound ==
  /\ parse_lines_loops(parser)
  /\ parser' = parse_lines_round(parser)
  /\ ParserUnchanged

\* The while loop of the innermost parse_lines is left.
ParseLinesReturn ==
  /\ parser.frames # <<>>
  /\ ~parse_lines_loops(parser)
  /\ parser' = parse_lines_return(parser)
  /\ ParserUnchanged

(* ---------------------------------------------------------------------- *)
(* ProfilerWrapper used directly: events nested more deeply than clear     *)
(* ends, lookups of event times, clear and clear_all                       *)
(* ---------------------------------------------------------------------- *)
CanTrack == profiler.next_id <= MaxTracked

EventIds == 1..MaxTracked

\* The orders in which an iteration can yield the groups.
GroupOrders == {<<ActiveGroup, ExtraGroup>>, <<ExtraGroup, ActiveGroup>>}

\* ProfilerWrapper.start(name, group)
WrapperStart ==
  /\ CanTrack
  /\ \E group \in Groups :
       /\ profiler' = start(profiler, "test", group)
       /\ last_return' = [op |-> "start", group |-> group, raised |-> FALSE,
                          value |-> Some(start_result(profiler))]
  /\ UNCHANGED <<meter_vars, plugin_vars, recorder, call_stack, settings>>

\* ProfilerWrapper.add_record(name, group, time)
WrapperAddRecord ==
  /\ CanTrack
  /\ \E group \in Groups :
       /\ profiler' = add_record(profiler, "added_record", group)
       /\ last_return' = [op |-> "add_record", group |-> group,
                          raised |-> FALSE,
                          value |-> Some(start_result(profiler))]
  /\ UNCHANGED <<meter_vars, plugin_vars, recorder, call_stack, settings>>

\* ProfilerWrapper.end(group): the id tracked last for the group, "invalid"
\* for a group without key, IndexError for a group with an empty list.
WrapperEnd ==
  /\ \E group \in Groups :
       /\ profiler' = end(profiler, group)
       /\ last_return' = [op |-> "end", group |-> group,
                          raised |-> end_raises(profiler, group),
                          value |-> IF end_raises(profiler, group) THEN None
                                    ELSE Some(end_result(profiler, group))]
  /\ UNCHANGED <<meter_vars, plugin_vars, recorder, call_stack, settings>>

\* ProfilerWrapper.get_event_time(event_id, group): the time of the entry,
\* or EventNotFoundError.
GetEventTime ==
  /\ \E group \in Groups, event_id \in EventIds :
       /\ profiler' = get_event_time(profiler, event_id, group)
       /\ last_return' = [op |-> "get_event_time", group |-> group,
                          raised |-> get_event_time_raises(profiler, event_id,
                                                           group),
                          value |-> Some(event_id)]
  /\ UNCHANGED <<meter_vars, plugin_vars, recorder, call_stack, settings>>

\* ProfilerWrapper.clear(group)
Clear ==
  /\ \E group \in Groups :
       /\ profiler' = clear(profiler, group)
       /\ last_return' = [op |-> "clear", group |-> group,
                          raised |-> clear_raises(profiler, group),
                          value |-> None]
  /\ UNCHANGED <<meter_vars, plugin_vars, recorder, call_stack, settings>>

\* ProfilerWrapper.clear_all()
ClearAll ==
  /\ \E order \in GroupOrders :
       /\ profiler' = clear_all(profiler, order).p
       /\ last_return' = [op |-> "clear_all", group |-> "",
                          raised |-> clear_all(profiler, order).raised,
                          value |-> None]
  /\ UNCHANGED <<meter_vars, plugin_vars, recorder, call_stack, settings>>

(* ---------------------------------------------------------------------- *)
\* Meters driven directly: settings, the raw context stack, the profiler
\* connection, continuous and one-shot measurement, and the events that
\* reach a meter from its polling thread or from the map canvas.
Next ==
  \/ Tick
  \/ SetEnabled
  \/ AddContext
  \/ PopContext
  \/ ConnectToProfiler
  \/ StartMeasuring
  \/ StopMeasuring
  \/ Cleanup
  \/ Measure
  \/ ThreadMeasureReturn
  \/ RenderingMeasureReturn
  \/ RecoveryBatch
  \/ PollerStart
  \/ PollerTimeout
  \/ OnPollEvent
  \/ RenderStarting
  \/ MapCanvasRefreshed

Spec == Init /\ [][Next]_vars

\* Meters driven through scoped context blocks and Meter.monitor wrappers.
ScopedNext ==
  \/ Tick
  \/ SetEnabled
  \/ AddContext
  \/ PopContext
  \/ EnterContext
  \/ LeaveContext
  \/ MonitorCall
  \/ MonitorFunctionEnds
  \/ MonitorAfterEvents
  \/ MonitorReturn
  \/ Measure
  \/ ThreadMeasureReturn
  \/ RenderingMeasureReturn
  \/ RecoveryBatch
  \/ PollerStart
  \/ PollerTimeout
  \/ OnPollEvent
  \/ RenderStarting
  \/ MapCanvasRefreshed

ScopedSpec == Init /\ [][ScopedNext]_vars

\* RecoveryMeasurer alone, with the scheduling its wait loop relies on: the
\* main thread keeps running the loop, so a batch that has begun completes.
RecoveryInit == Init /\ cls = RecoveryMeasurer

RecoveryNext ==
  \/ Tick
  \/ SetEnabled
  \/ AddContext
  \/ PopContext
  \/ ConnectToProfiler
  \/ Measure
  \/ RecoveryBatch

RecoverySpec ==
  RecoveryInit /\ [][RecoveryNext]_vars /\ WF_vars(RecoveryBatch)

\* MainThreadHealthChecker measuring continuously.  The worker thread runs
\* ThreadPoller.start and the QTimer of the poller, the main thread returns to
\* its event loop and delivers the queued poll signals, and time passes.
PollingInit == Init /\ cls = MainThreadHealthChecker

PollingNext ==
  \/ Tick
  \/ SetEnabled
  \/ ConnectToProfiler
  \/ StartMeasuring
  \/ StopMeasuring
  \/ Cleanup
  \/ PollerStart
  \/ PollerTimeout
  \/ OnPollEvent

PollingSpec ==
  /\ PollingInit /\ [][PollingNext]_vars
  /\ WF_vars(Tick) /\ WF_vars(PollerStart) /\ WF_vars(PollerTimeout)
  /\ WF_vars(OnPollEvent)

\* ProfilerWrapper and the @profile decorator; the meters are not used.
ProfilerInit ==
  /\ cls = RecoveryMeasurer
  /\ meter = NewMeter
  /\ poll_queue = <<>>
  /\ canvas_rendering = FALSE
  /\ now = 0
  /\ call_stack = <<>>
  /\ added = <<>>
  /\ last_return = NoReturn
  /\ \E environ \in Environ : settings = NewSettings(environ)
  /\ profiler = NewProfiler
  /\ recorder = NewRecorder
  /\ PluginInit

ProfilerNext ==
  \/ Start
  \/ End
  \/ AddRecord
  \/ ProfileEnter
  \/ ProfileExit
  \/ ProfiledCall
  \/ ProfiledReturn
  \/ SetProfilerEnabled
  \/ CacheExpires

ProfilerSpec == ProfilerInit /\ [][ProfilerNext]_vars

\* ProfilerEventRecorder with the buttons of a dialog, and application code
\* that uses the profiler directly.
RecorderNext ==
  \/ StartRecording
  \/ StopRecording
  \/ Click
  \/ ClickedReturns
  \/ StopProfilingEventDelivered
  \/ Start

RecorderInit == ProfilerInit /\ settings = NewSettings(None)

RecorderSpec == RecorderInit /\ [][RecorderNext]_vars

\* One SimpleMapToolConfig built from any two of the filters.
MapToolConfigInit ==
  /\ cls = RecoveryMeasurer
  /\ meter = NewMeter
  /\ poll_queue = <<>>
  /\ canvas_rendering = FALSE
  /\ now = 0
  /\ call_stack = <<>>
  /\ added = <<>>
  /\ last_return = NoReturn
  /\ settings = NewSettings(None)
  /\ profiler = NewProfiler
  /\ recorder = NewRecorder
  /\ extension = NoExtension
  /\ singletons = [c \in MeterClasses |-> NewSingleton]
  /\ ToolInit
  /\ \E start_event_filter \in EventFilters, stop_event_filter \in EventFilters :
       config = SimpleMapToolConfig(start_event_filter, stop_event_filter)

MapToolConfigNext ==
  \/ Activate
  \/ Matches

MapToolConfigSpec == MapToolConfigInit /\ [][MapToolConfigNext]_vars

\* The widget of the plugin right after construction, for any setting of the
\* meters, in a profiler panel that lists the group of the recorder or not.
ExtensionInit ==
  /\ cls = RecoveryMeasurer
  /\ meter = NewMeter
  /\ poll_queue = <<>>
  /\ canvas_rendering = FALSE
  /\ now = 0
  /\ call_stack = <<>>
  /\ added = <<>>
  /\ last_return = NoReturn
  /\ profiler = NewProfiler
  /\ recorder = NewRecorder
  /\ ToolInit
  /\ \E meter_enabled \in MeterSettings, items \in {{}, {NewRecorder.group}} :
       LET st == [NewSettings(None) EXCEPT !.meter_enabled = meter_enabled]
           e == [NoExtension EXCEPT !.exists = TRUE,
                                    !.combo_box_items = items]
           w == update_ui_state(
                  reset_meters(
                    Plugin(e, [c \in MeterClasses |-> NewSingleton],
                           NewRecorder, NewProfiler,
                           SimpleMapToolConfig(mouse_right_button_release,
                                               feature_dialog_shown)),
                    st))
       IN  /\ settings = st
           /\ extension = w.e /\ singletons = w.s /\ config = w.c

ExtensionNext ==
  \/ ToggleRecording
  \/ OpenSettings
  \/ Unload
  \/ MapToolEvent
  \/ MapToolChanged
  \/ StopProfilingEventDelivered

ExtensionSpec == ExtensionInit /\ [][ExtensionNext]_vars

(* ---------------------------------------------------------------------- *)
(* The macro recorder on its own: the user types, clicks and moves the     *)
(* mouse while the recording is switched on and off.                       *)
(* ---------------------------------------------------------------------- *)
MacroRecorderInit ==
  /\ cls = RecoveryMeasurer
  /\ meter = NewMeter
  /\ poll_queue = <<>>
  /\ canvas_rendering = FALSE
  /\ now = 0
  /\ call_stack = <<>>
  /\ added = <<>>
  /\ last_return = NoReturn
  /\ settings = NewSettings(None)
  /\ profiler = NewProfiler
  /\ recorder = NewRecorder
  /\ config = SimpleMapToolConfig(mouse_right_button_release,
                                  feature_dialog_shown)
  /\ extension = NoExtension
  /\ singletons = [c \in MeterClasses |-> NewSingleton]
  /\ \E filter_out_mouse_movements \in BOOLEAN :
       macro_recorder = MacroRecorder(filter_out_mouse_movements, {"panel"})
  /\ input = NoInput
  /\ macro_player = MacroPlayer(DefaultSpeed)
  /\ parser = NoParser

MacroRecorderNext ==
  \/ MacroTick
  \/ MacroStartRecording
  \/ MacroStopRecording
  \/ KeyAction
  \/ MouseButtonAction
  \/ MouseDoubleClick
  \/ MouseMove

MacroRecorderSpec == MacroRecorderInit /\ [][MacroRecorderNext]_vars

(* ---------------------------------------------------------------------- *)
(* The macro player on its own: macros of all speeds are played, also one  *)
(* during the playback of another.                                         *)
(* ---------------------------------------------------------------------- *)
MacroPlayerInit ==
  /\ cls = RecoveryMeasurer
  /\ meter = NewMeter
  /\ poll_queue = <<>>
  /\ canvas_rendering = FALSE
  /\ now = 0
  /\ call_stack = <<>>
  /\ added = <<>>
  /\ last_return = NoReturn
  /\ settings = NewSettings(None)
  /\ profiler = NewProfiler
  /\ recorder = NewRecorder
  /\ config = SimpleMapToolConfig(mouse_right_button_release,
                                  feature_dialog_shown)
  /\ extension = NoExtension
  /\ singletons = [c \in MeterClasses |-> NewSingleton]
  /\ macro_recorder = MacroRecorder(TRUE, {"panel"})
  /\ input = NoInput
  /\ parser = NoParser
  /\ \E playback_speed \in Speeds : macro_player = MacroPlayer(playback_speed)

MacroPlayerNext ==
  \/ PlayTick
  \/ Play
  \/ PlayStep
  \/ PlayReturn

MacroPlayerSpec == MacroPlayerInit /\ [][MacroPlayerNext]_vars

(* ---------------------------------------------------------------------- *)
(* The parser on its own, for every text within the bounds.                *)
(* ---------------------------------------------------------------------- *)
ParserInit ==
  /\ cls = RecoveryMeasurer
  /\ meter = NewMeter
  /\ poll_queue = <<>>
  /\ canvas_rendering = FALSE
  /\ now = 0
  /\ call_stack = <<>>
  /\ added = <<>>
  /\ last_return = NoReturn
  /\ settings = NewSettings(None)
  /\ profiler = NewProfiler
  /\ recorder = NewRecorder
  /\ config = SimpleMapToolConfig(mouse_right_button_release,
                                  feature_dialog_shown)
  /\ extension = NoExtension
  /\ singletons = [c \in MeterClasses |-> NewSingleton]
  /\ macro_recorder = MacroRecorder(TRUE, {"panel"})
  /\ input = NoInput
  /\ macro_player = MacroPlayer(DefaultSpeed)
  /\ \E text \in ProfilerTexts(NoParser.group) :
       parser = [NoParser EXCEPT !.text = text]

ParserNext ==
  \/ ParseFromText
  \/ ParseLinesRound
  \/ ParseLinesReturn

ParserSpec == ParserInit /\ [][ParserNext]_vars

\* ProfilerWrapper alone, called directly by application code.
WrapperNext ==
  \/ WrapperStart
  \/ WrapperAddRecord
  \/ WrapperEnd
  \/ GetEventTime
  \/ Clear
  \/ ClearAll

WrapperSpec == ProfilerInit /\ [][WrapperNext]_vars

\* The widget of the plugin records the clicks on the buttons of a dialog
\* and the events of the map tool in use; its meters measure every
\* recorded event that finishes.
RecordedEventsNext ==
  \/ ToggleRecording
  \/ Click
  \/ ClickedReturns
  \/ MapToolEvent
  \/ StopProfilingEventDelivered

RecordedEventsSpec == ExtensionInit /\ [][RecordedEventsNext]_vars

(* ---------------------------------------------------------------------- *)
(* Properties                                                              *)
(* ---------------------------------------------------------------------- *)
\* The anomalies in the log that carry `context` and `duration`.
Emitted(context, duration) ==
  {i \in DOMAIN meter.emitted :
     /\ meter.emitted[i].context = context
     /\ meter.emitted[i].duration_ms = duration}

\* C1: whenever measure() of an enabled meter returns a duration above the
\* threshold, anomaly_detected has been emitted with current_context and
\* that duration.
C1_AnomalyAboveThreshold ==
  (/\ last_return.op = "measure"
   /\ last_return.value # None
   /\ last_return.value[1] > threshold_ms)
    => Emitted(current_context, last_return.value[1]) # {}

\* C2: no anomaly_detected is emitted while the enabled flag is false,
\* neither by measure() nor by the callbacks of continuous measurement.
C2_NoAnomalyWhileDisabled ==
  \A i \in DOMAIN meter.emitted : meter.emitted[i].enabled

\* C3: measure() on a disabled meter returns None at once: no wait loop is
\* entered, no anomaly is emitted and nothing of the meter changes, in
\* particular not is_measuring, the context stack or the profiler connection.
C3_DisabledMeasureIsNoOp ==
  [][(Measure /\ ~meter.enabled)
       => /\ last_return' = [op |-> "measure", value |-> None]
          /\ call_stack' = call_stack
          /\ meter' = Fresh(meter)
          /\ meter'.is_measuring = meter.is_measuring
          /\ meter'.context_stack = meter.context_stack
          /\ meter'.connected_to_profiler = meter.connected_to_profiler
          /\ meter'.profiler_slots = meter.profiler_slots]_vars

\* A disabled meter that is measuring continuously, is connected to the
\* profiler and has a context on its stack has answered measure() with None.
C3_Witness ==
  /\ last_return = [op |-> "measure", value |-> None]
  /\ ~meter.enabled
  /\ meter.is_measuring
  /\ meter.connected_to_profiler
  /\ meter.context_stack # <<>>

\* C4: start_measuring() on a meter that is already measuring is a no-op:
\* no further poller or thread, no further subscription, the same state.
C4_StartTwiceIsNoOp ==
  [][(StartMeasuring /\ meter.is_measuring)
       => Core(meter') = Core(meter)]_vars

\* C5: after cleanup() the meter is not measuring, none of the polling
\* threads it started is running and nothing is connected to the profiler.
C5_CleanupStopsEverything ==
  last_return.op = "cleanup"
    => /\ ~meter.is_measuring
       /\ \A p \in PollerIds : meter.pollers[p].state = "free"
       /\ ~meter.connected_to_profiler
       /\ meter.profiler_slots = 0

\* C6: while MapRenderingMeter is not measuring, i.e. before the first start
\* and after stop_measuring() or cleanup(), the canvas notifications neither
\* change the last rendering time nor emit an anomaly.
C6_NoCanvasCallbacksWhenStopped ==
  [][(/\ cls = MapRenderingMeter
      /\ ~meter.is_measuring
      /\ RenderStarting \/ MapCanvasRefreshed)
       => /\ meter'.last_rendering_time_ms = meter.last_rendering_time_ms
          /\ meter'.emitted = Fresh(meter).emitted]_vars

\* What current_context has to be when `context` is the current entry.
Suffixed(context) ==
  CASE cls = MainThreadHealthChecker ->
         [name |-> context.name \o " (main_thread)", group |-> context.group]
    [] cls = MapRenderingMeter ->
         [name |-> context.name \o " (rendering)", group |-> context.group]
    [] OTHER -> context

\* C7: under scoped use the context stack is balanced: when a block is
\* left, normally or by an exception, the stack is what it was when the block
\* was entered, and inside a block current_context is the block's context.
C7_ScopedContextBalanced ==
  /\ last_return.op = "leave_context"
       => meter.context_stack = last_return.entry
  /\ last_return.op = "enter_context"
       => last_return.value = Some(Suffixed(Top.ctx))
  /\ scope_of(call_stack).kind = "context"
       => current_context = Suffixed(scope_of(call_stack).ctx)

\* A block nested in another block has been left by an exception.
C7_Witness ==
  /\ last_return.op = "leave_context"
  /\ last_return.raised
  /\ last_return.entry # <<>>
  /\ ~Idle
  /\ Top.type = "context"
  /\ meter.context_stack = <<Top.ctx>>

MonitorContexts ==
  {[name |-> "name_args_set(a=1, b=2)", group |-> "Plugins"],
   [name |-> "monitor_thread_health", group |-> "Plugins"],
   [name |-> "foo", group |-> "bar"]}

\* C9: a function monitored by an enabled meter runs with its own context on
\* top of the stack; every anomaly emitted during the call or by the
\* measurement after the call carries that context and is recorded once in
\* the profiler; and after the call, normal or exceptional, the context
\* stack is what it was before the call.
C9_MonitoredCall ==
  /\ scope_of(call_stack).kind = "monitor"
       => /\ scope_of(call_stack).ctx \in MonitorContexts
          /\ current_context = Suffixed(scope_of(call_stack).ctx)
  /\ \A i \in DOMAIN meter.emitted :
       meter.emitted[i].scope.kind = "monitor"
         => /\ meter.emitted[i].context = Suffixed(meter.emitted[i].scope.ctx)
            /\ meter.emitted[i].records = 1
  /\ (last_return.op = "monitor" /\ last_return.active)
       => meter.context_stack = last_return.entry

\* C10: for a disabled meter the wrapper only calls the function and
\* returns its result: nothing of the meter changes when the call begins or
\* ends, no event is processed and no measurement is taken.
C10_DisabledMonitorDoesNothing ==
  [][/\ (MonitorCall /\ ~meter.enabled)
          => /\ meter' = Fresh(meter)
             /\ ~Top'.active
     /\ (MonitorFunctionEnds /\ ~Top.active)
          => /\ meter' = meter
             /\ call_stack' = Below
             /\ last_return'.op = "monitor"
             /\ last_return'.raised = (last_return'.value = None)]_vars

\* A disabled meter with a context on its stack has let a monitored
\* function return its result.
C10_Witness ==
  /\ last_return.op = "monitor"
  /\ ~last_return.active
  /\ last_return.value # None
  /\ ~meter.enabled
  /\ meter.context_stack # <<>>
  /\ ~meter.connected_to_profiler

\* The most batches a recovery measurement can run: every batch but the last
\* took longer than the threshold and ended within the timeout.
MaxBatches == RecoveryTimeoutMs \div (threshold_ms + 1) + 1

InRecovery == ~Idle /\ Top.type = "recovery"

\* C11: RecoveryMeasurer.measure() terminates after a bounded number of
\* batches.  The wait loop ends exactly when a batch completes within the
\* threshold or the time since the start of the measurement exceeds the
\* timeout, and an anomaly is reported exactly when at least one batch took
\* longer than the threshold.
C11_RecoveryTerminates ==
  /\ [](InRecovery => Top.batches < MaxBatches)
  /\ [][RecoveryBatch =>
         LET recovery_time == now - Top.batch_start
             elapsed == now - Top.t0
             ends == call_stack' = Below
         IN  /\ ends <=> (\/ recovery_time <= threshold_ms
                          \/ elapsed > RecoveryTimeoutMs)
             /\ ends => /\ last_return' = [op |-> "measure",
                                           value |-> Some(elapsed)]
                        /\ (meter'.emitted # <<>>)
                             <=> (\/ Top.batches > 0
                                  \/ recovery_time > threshold_ms)]_vars
  /\ (InRecovery ~> Idle)

\* A measurement has ended past the timeout, after at least one batch that
\* took longer than the threshold, and the anomaly was emitted.
C11_Witness ==
  /\ cls = RecoveryMeasurer
  /\ last_return.op = "measure"
  /\ last_return.value # None
  /\ last_return.value[1] > RecoveryTimeoutMs
  /\ Emitted(current_context, last_return.value[1]) # {}

\* C12: at most one poll is waiting for the main thread at any time, and
\* the delay that _on_poll_event reads is the time since the emission of the
\* poll it is handling.
C12_OneUnhandledPoll ==
  /\ Len(poll_queue) <= 1
  /\ last_return.op = "on_poll_event"
       => last_return.value = Some(last_return.since_emission)

\* The poller the meter holds, and the time of its last emitted poll.
HasPoller == meter.poller # NoPoller
LastPing == meter.pollers[meter.poller].elapsed_start

\* C13: while MainThreadHealthChecker measures continuously and the main
\* thread keeps processing events, polling never gets stuck: ThreadPoller.start
\* emits a poll at once, a started poller has emitted unless measuring was
\* stopped first, and after every handled poll whose next timer tick lies
\* within the followed time the poller emits another poll, unless measuring
\* is stopped.
C13_PollingNeverStuck ==
  /\ [][PollerStart => Len(poll_queue') = Len(poll_queue) + 1]_vars
  /\ (HasPoller /\ meter.pollers[meter.poller].state = "starting")
        ~> (~HasPoller \/ meter.pollers[meter.poller].polling_active)
  /\ \A t \in 0..MaxTicks :
       (/\ HasPoller
        /\ last_return.op = "on_poll_event"
        /\ LastPing = t
        /\ t + PollIntervalMs <= TickBound)
         ~> (~HasPoller \/ LastPing > t)

\* A poll was handled with a delay, and the poller has emitted again later.
C13_Witness ==
  /\ cls = MainThreadHealthChecker
  /\ meter.is_measuring /\ HasPoller
  /\ meter.last_delay_ms > 0
  /\ meter.pollers[meter.poller].polling_active
  /\ LastPing = MaxTicks
  /\ poll_queue = <<LastPing>>

\* C14: ProfilerWrapper.end(group) returns the identifier that start()
\* returned for the event it ends, the most recently started and not yet
\* ended event of the group, after any sequence of start, add_record and end.
C14_EndReturnsEndedEvent ==
  (last_return.op = "end" /\ last_return.ended # None)
    => last_return.value = last_return.ended

\* The number of started and not yet ended events of a group.
OpenEvents(p, group) == Len(p.stack[group])

\* C15: profile(name, group) starts exactly one event on entry and yields its
\* identifier; on exit, also when the body raised, it ends exactly one event
\* of the same group, the one it started, so that the group has as many open
\* events after the block as before it; no other group is touched.
C15_ProfileBlockBalanced ==
  /\ [][ProfileEnter =>
          LET frame == call_stack'[Len(call_stack')]
          IN  /\ OpenEvents(profiler', frame.group)
                   = OpenEvents(profiler, frame.group) + 1
              /\ Last(profiler'.stack[frame.group]) = frame.event_id
              /\ frame.event_id \notin DOMAIN profiler.nodes
              /\ Len(profiler'.nodes) = Len(profiler.nodes) + 1
              /\ \A g \in Groups \ {frame.group} :
                   profiler'.stack[g] = profiler.stack[g]]_vars
  /\ [][ProfileExit =>
          /\ OpenEvents(profiler', Top.group)
               = OpenEvents(profiler, Top.group) - 1
          /\ OpenEvents(profiler', Top.group) = Top.open_before
          /\ Last(profiler.stack[Top.group]) = Top.event_id
          /\ profiler'.nodes = profiler.nodes
          /\ \A g \in Groups \ {Top.group} :
               profiler'.stack[g] = profiler.stack[g]]_vars

\* A block nested in another block was left by an exception while an event
\* started before the blocks is still open.
C15_Witness ==
  /\ last_return.op = "profile" /\ last_return.raised
  /\ ~Idle /\ Top.type = "profile"
  /\ OpenEvents(profiler, Top.group) = 2

\* The wrapper of a decorated function has just been entered, and the frame
\* of its call.
CalledFrame == call_stack'[Len(call_stack')]

\* The wrapper started exactly one event, named after the function, for the
\* call whose frame is `frame`.
StartsOneEvent(frame) ==
  /\ OpenEvents(profiler', frame.group)
       = OpenEvents(profiler, frame.group) + 1
  /\ Last(profiler'.stack[frame.group]) = frame.event_id
  /\ frame.event_id \notin DOMAIN profiler.nodes
  /\ Len(profiler'.nodes) = Len(profiler.nodes) + 1
  /\ \A g \in Groups \ {frame.group} : profiler'.stack[g] = profiler.stack[g]

\* The wrapper ends exactly one event, the one it started, and adds none.
EndsItsEvent ==
  /\ OpenEvents(profiler', Top.group) = OpenEvents(profiler, Top.group) - 1
  /\ Last(profiler.stack[Top.group]) = Top.event_id
  /\ profiler'.nodes = profiler.nodes
  /\ \A g \in Groups \ {Top.group} : profiler'.stack[g] = profiler.stack[g]

\* A profiled call made inside a profiled call of the same group is a child
\* of the outer call's entry.
ChildOfOuterCall(frame) ==
  (~Idle /\ Top.type = "profiled" /\ Top.profiling /\ Top.group = frame.group)
    => profiler'.nodes[frame.event_id].parent = Top.event_id

LeavesProfilerAlone ==
  /\ profiler' = profiler
  /\ \A raised \in BOOLEAN :
       last_return'.raised = raised
         => last_return'.value = IF raised THEN None ELSE Some(3)

ClickedButton == call_stack'[Len(call_stack')].button

\* C18: while the recorder is recording, one click on a button starts exactly
\* one profiling event named after the button, however often the filter sees
\* the mouse release, and ends exactly one event of the recorder's group
\* after the clicked handlers have run; event_started(name) comes before
\* event_finished(name); a later click on the same or another button is
\* profiled the same way.
C18_ClickProfiledOnce ==
  /\ [][(Click /\ recorder.recording) =>
          /\ recorder'.started[ClickedButton]
               = recorder.started[ClickedButton] + 1
          /\ OpenEvents(profiler', recorder.group)
               = OpenEvents(profiler, recorder.group) + 1
          /\ Len(profiler'.nodes) = Len(profiler.nodes) + 1
          /\ Last(profiler'.nodes).name = ClickedButton]_vars
  /\ [][(StopProfilingEventDelivered /\ recorder.recording) =>
          /\ OpenEvents(profiler', recorder.group)
               = OpenEvents(profiler, recorder.group) - 1
          /\ recorder'.finished[Head(recorder.posted).name]
               = recorder.finished[Head(recorder.posted).name] + 1]_vars
  /\ [](\A name \in Buttons :
          recorder.finished[name] <= recorder.started[name])

\* C19: stop_recording() on a recording recorder, also while a clicked
\* handler is still running, leaves is_recording() false, the event filter
\* removed, the connection table empty and no button's clicked signal
\* connected to the recorder, and no event of the recorder's group open; the
\* other groups and the entries of the profiler are untouched.
C19_StopRecordingStopsAll ==
  [][(StopRecording /\ recorder.recording) =>
       /\ ~recorder'.recording
       /\ ~recorder'.filter_installed
       /\ \A b \in Buttons : /\ recorder'.connections[b] = NoConnection
                              /\ recorder'.clicked_slots[b] = {}
       /\ ~is_profiling(profiler', recorder.group)
       /\ profiler'.nodes = profiler.nodes
       /\ \A g \in Groups \ {recorder.group} :
            profiler'.stack[g] = profiler.stack[g]]_vars

\* Recording was stopped while the handler of a click that started an event
\* was still running.
C19_Witness ==
  /\ last_return.op = "stop_recording" /\ last_return.recording
  /\ InClickedHandler /\ Top.slots # {}
  /\ profiler.nodes # <<>>
  /\ ~recorder.recording

\* C20: stop_recording() on a recorder that is not recording changes
\* nothing: no filter or signal is removed, no profiler event is ended, and
\* the recorder stays not recording.
C20_StopWithoutStartIsNoOp ==
  [][(StopRecording /\ ~recorder.recording) =>
       recorder' = recorder /\ profiler' = profiler]_vars

\* stop_recording() returned on a recorder that was not recording while an
\* event of its group is open.
C20_Witness ==
  /\ last_return.op = "stop_recording" /\ ~last_return.recording
  /\ ~recorder.recording
  /\ is_profiling(profiler, recorder.group)

\* The response a stop of the configuration gives.
StopResponse ==
  IF config.stop_event_filter.stop_after_responsive
    THEN STOP_PROFILING_DELAYED
    ELSE STOP_PROFILING

\* C21: the responses of SimpleMapToolConfig.matches other than None, since
\* the configuration was constructed or activated last, alternate and begin
\* with START_PROFILING: the odd ones are START_PROFILING, the even ones are
\* STOP_PROFILING, or STOP_PROFILING_DELAYED when the stop filter has
\* stop_after_responsive; activate() leaves the configuration not started,
\* and it is started exactly when its last response was a start.
C21_StartStopAlternate ==
  /\ \A i \in 1..Len(config.responses) :
       config.responses[i] =
         IF i % 2 = 1 THEN START_PROFILING ELSE StopResponse
  /\ config.profiling_started <=> (Len(config.responses) % 2 = 1)
  /\ last_return.op = "activate" => ~config.profiling_started

\* A delayed stop was answered between two starts, by a configuration whose
\* two filters match the same event.
C21_Witness ==
  /\ Len(config.responses) >= 3
  /\ config.responses[2] = STOP_PROFILING_DELAYED
  /\ config.start_event_filter = config.stop_event_filter
  /\ last_return.op = "matches"
  /\ last_return.value = Some(START_PROFILING)

\* The listed meters that can measure continuously.
ContinuousMeters(e) ==
  {c \in MeterClasses : listed(e, c) /\ supports_continuous_measuring(c)}

\* C22: every press of the record button toggles recording.  When the
\* recorder was not recording it is started, after the recorder's group was
\* created if the panel did not offer it, and start_measuring is called once
\* on every listed meter that supports continuous measuring and on no other;
\* otherwise the recorder is stopped and stop_measuring is called once on
\* those meters.  After the press the record button is checked exactly when
\* the recorder is recording.
C22_RecordButtonToggles ==
  [][ToggleRecording =>
       /\ recorder'.recording = ~recorder.recording
       /\ extension'.button_record_checked = recorder'.recording
       /\ ~recorder.recording =>
            /\ recorder.group \in extension'.combo_box_items
            /\ extension'.combo_box_text = recorder.group
            /\ recorder'.filter_installed
            /\ \A c \in MeterClasses :
                 /\ singletons'[c].calls.start_measuring =
                      IF c \in ContinuousMeters(extension) THEN 1 ELSE 0
                 /\ c \in ContinuousMeters(extension) =>
                      singletons'[c].is_measuring
                 /\ singletons'[c].calls.stop_measuring = 0
       /\ recorder.recording =>
            /\ ~recorder'.filter_installed
            /\ \A c \in MeterClasses :
                 /\ singletons'[c].calls.stop_measuring =
                      IF c \in ContinuousMeters(extension) THEN 1 ELSE 0
                 /\ c \in ContinuousMeters(extension) =>
                      ~singletons'[c].is_measuring
                 /\ singletons'[c].calls.start_measuring = 0]_vars

\* A press has started the recording after creating the recorder's group,
\* with a meter that measures continuously and one that does not.
C22_Witness ==
  /\ last_return.op = "toggle_recording"
  /\ ~last_return.recording /\ last_return.create_group
  /\ recorder.recording /\ extension.button_record_checked
  /\ extension.meters = <<RecoveryMeasurer, MainThreadHealthChecker>>
  /\ singletons[MainThreadHealthChecker].calls.start_measuring = 1
  /\ singletons[MainThreadHealthChecker].is_measuring

\* What _reset_meters leaves behind, for the meters listed before it.
MetersReset(before, e, s, st) ==
  /\ \A c \in MeterClasses :
       s[c].calls.cleanup = IF listed(before, c) THEN 1 ELSE 0
  /\ e.meters = SelectSeq(MeterOrder, LAMBDA c : st.meter_enabled[c])
  /\ \A c \in MeterClasses :
       IF st.meter_enabled[c]
         THEN /\ s[c].calls.reset_parameters = 1
              /\ s[c].calls.connect_to_profiler = 1
              /\ s[c].connected_to_profiler
              /\ s[c].enabled
         ELSE ~s[c].enabled

\* C23: after _reset_meters, at construction and after every closing of the
\* settings dialog, every meter that was listed has been cleaned up exactly
\* once, the list holds exactly the meters whose enabled setting is true,
\* each of them has had reset_parameters and connect_to_profiler applied,
\* and the meters whose setting is false are not enabled; after cleanup()
\* the list is empty.
C23_ResetMeters ==
  /\ MetersReset(NoExtension, extension, singletons, settings)
  /\ [][/\ OpenSettings =>
             MetersReset(extension, extension', singletons', settings')
        /\ Unload => extension'.meters = <<>>]_vars

\* The settings dialog was closed with two of the three listed meters
\* switched off.
C23_Witness ==
  /\ last_return.op = "open_settings"
  /\ last_return.meters = MeterOrder
  /\ extension.meters = <<MainThreadHealthChecker>>
  /\ \A c \in MeterClasses : singletons[c].calls.cleanup = 1
  /\ ~singletons[RecoveryMeasurer].enabled

\* No event of the recorder is open in the profiler or waits for its posted
\* stop event.
NoEventInProgress ==
  /\ ~is_profiling(profiler, recorder.group)
  /\ recorder.posted = <<>>

\* C28: the contexts that event_started pushes on the meters are matched by
\* the pops on event_finished: whenever no recorded event is in progress the
\* context stack of every listed meter is empty.
C28_ContextsBalanced ==
  NoEventInProgress =>
    \A c \in MeterClasses :
      listed(extension, c) => singletons[c].context_stack = <<>>

(* ---------------------------------------------------------------------- *)
(* C24: MacroRecorder records one event per physical key or mouse-button   *)
(* action however often the application-wide filter sees it: a click that  *)
(* the user has just completed during a recording, away from the widgets   *)
(* whose events are filtered out, has added exactly two events to the      *)
(* recording, a press followed by a release, both with the button, the     *)
(* position and the modifiers of the click.                                *)
(* ---------------------------------------------------------------------- *)
C24_ClickRecorded ==
  (/\ input.click # None
   /\ input.click[1].position
        \notin macro_recorder.widgets_to_filter_events_out)
    => LET click == input.click[1]
           events == macro_recorder.recorded_events
           is_recorded(e, is_release) ==
             /\ e.class = "MacroMouseEvent"
             /\ e.is_release = is_release
             /\ e.button = click.button
             /\ e.position = click.position
             /\ e.modifiers = click.modifiers
       IN  /\ Len(events) = click.before + 2
           /\ is_recorded(events[click.before + 1], FALSE)
           /\ is_recorded(events[click.before + 2], TRUE)

(* ---------------------------------------------------------------------- *)
(* C25: MacroPlayer.play performs every event of the macro exactly once    *)
(* and in list order, and it performs an event only after at least         *)
(* ms_since_last_event times (player speed times macro speed) milliseconds *)
(* have passed since the action of the event before it finished (for the   *)
(* first event: since play was called). Speeds are counted in halves, so   *)
(* the product of the two speeds is counted in quarters.                   *)
(* ---------------------------------------------------------------------- *)
InOrder(performed, n) == performed = [i \in 1..n |-> i]

C25_PlaysInOrderAfterWaiting ==
  /\ last_return.op = "MacroPlayer.play"
       => InOrder(last_return.performed, last_return.events)
  /\ \A k \in DOMAIN macro_player.frames :
       LET f == macro_player.frames[k]
       IN  /\ f.index <= Len(f.macro.events) + 1
           /\ InOrder(f.performed,
                      IF f.stage = "perform_event_action"
                        THEN f.index ELSE f.index - 1)
           /\ f.stage = "perform_event_action"
                => 4 * (now - f.finished_at)
                     >= f.macro.events[f.index].ms_since_last_event
                          * macro_player.speed * f.macro.speed

\* A macro of two events has been played to its end, and an event for which
\* the player has to wait is being performed.
C25_Witness ==
  /\ last_return.op = "MacroPlayer.play"
  /\ last_return.performed = <<1, 2>>
  /\ \E k \in DOMAIN macro_player.frames :
       LET f == macro_player.frames[k]
       IN  /\ f.stage = "perform_event_action"
           /\ f.macro.events[f.index].ms_since_last_event
                * macro_player.speed * f.macro.speed >= 4

(* ---------------------------------------------------------------------- *)
(* C26: for a text whose lines are well nested (the first line is the name *)
(* of the group, every following line has at least one dash and at most    *)
(* one more than the line before it) parse_from_text returns the forest in *)
(* which every line is one result with its name, its duration and the      *)
(* given group, the children of a line are the deeper lines that follow it *)
(* up to the next line of the same or a shallower level, and siblings keep *)
(* the order of the lines.                                                 *)
(* ---------------------------------------------------------------------- *)
WellNested(text) ==
  /\ text # <<>>
  /\ \A i \in 2..Len(text) :
       /\ count_dashes(text[i]) >= 1
       /\ count_dashes(text[i]) <= count_dashes(text[i - 1]) + 1

\* The lines of a set, in the order of the text.
RECURSIVE InLineOrder(_)
InLineOrder(indices) ==
  IF indices = {} THEN <<>>
  ELSE LET first == CHOOSE i \in indices : \A j \in indices : i <= j
       IN  <<first>> \o InLineOrder(indices \ {first})

\* The lines that follow line i of the text up to the next line of the same
\* or a shallower level.
LinesBelow(text, i) ==
  {j \in (i + 1)..Len(text) :
     \A k \in (i + 1)..j : count_dashes(text[k]) > count_dashes(text[i])}

\* The result that line i of the text stands for.
RECURSIVE ResultOfLine(_, _, _)
ResultOfLine(text, group, i) ==
  LET children ==
        InLineOrder({j \in LinesBelow(text, i) :
                       count_dashes(text[j]) = count_dashes(text[i]) + 1})
  IN  ProfilerResult(text[i].name, group, text[i].duration,
                     [k \in DOMAIN children |->
                        ResultOfLine(text, group, children[k])])

Forest(text, group) ==
  LET roots == InLineOrder({i \in LinesBelow(text, 1) :
                             count_dashes(text[i]) = 1})
  IN  [k \in DOMAIN roots |-> ResultOfLine(text, group, roots[k])]

C26_WellNestedTextParsed ==
  (parser.returned # None /\ WellNested(parser.text))
    => parser.returned[1] = Forest(parser.text, parser.group)

\* A well-nested text of four lines after the group name has been parsed:
\* a result with a child and a grandchild, and a second result.
C26_Witness ==
  /\ parser.returned # None
  /\ WellNested(parser.text)
  /\ Len(parser.text) = 5
  /\ Len(parser.returned[1]) = 2
  /\ parser.returned[1][1].children # <<>>
  /\ parser.returned[1][1].children[1].children # <<>>
  /\ parser.returned[1][1].name # parser.returned[1][2].name

(* ---------------------------------------------------------------------- *)
(* C27: parse_from_text terminates for every text: no round of the loop of *)
(* parse_lines leaves the lines and the results as they are, which is what *)
(* a line with more dashes than the level that is parsed would do (a       *)
(* skipped level, a name that contains a dash).                            *)
(* ---------------------------------------------------------------------- *)
C27_EveryRoundMakesProgress ==
  parse_lines_loops(parser)
    => count_dashes(parser.lines[1]) = Last(parser.frames).level

(* ---------------------------------------------------------------------- *)
(* C29: a one-shot measure() on a meter that supports continuous           *)
(* measurement and is not measuring leaves the meter not measuring: when   *)
(* the _measure that started a measurement of its own returns,             *)
(* is_measuring is false, the poller made for the measurement is gone, and *)
(* the next measure() does not answer from a measurement in progress.      *)
(* ---------------------------------------------------------------------- *)
OneShotMeasureReturns == ThreadMeasureReturn \/ RenderingMeasureReturn

C29_OneShotLeavesMeterNotMeasuring ==
  [][OneShotMeasureReturns
       => /\ ~meter'.is_measuring
          /\ meter'.poller = NoPoller
          /\ ~AnswersFromLast(meter')]_vars

(* ---------------------------------------------------------------------- *)
(* C30: measure() never changes whether the meter is connected to the      *)
(* profiler: a meter that is connected when measure() returns its value    *)
(* was so before and is so afterwards, and the anomaly that measure()      *)
(* emits is added to the profiler as a record.                             *)
(* ---------------------------------------------------------------------- *)
MeasureReturnsValue ==
  /\ Measure \/ ThreadMeasureReturn \/ RenderingMeasureReturn
       \/ RecoveryBatch
  /\ last_return'.op = "measure"

C30_MeasureKeepsProfilerConnection ==
  [][(MeasureReturnsValue /\ meter.connected_to_profiler)
       => /\ meter'.connected_to_profiler
          /\ meter'.emitted # meter.emitted
               => Last(meter'.emitted).records >= 1]_vars

(* ---------------------------------------------------------------------- *)
(* C37: ms_since_last_event of every recorded MacroEvent is non-negative   *)
(* in every recording session of a MacroRecorder, also in a session that   *)
(* is started after an earlier start_recording/stop_recording cycle.       *)
(* ---------------------------------------------------------------------- *)
C37_MsSinceLastEventNonNegative ==
  \A i \in DOMAIN macro_recorder.recorded_events :
    macro_recorder.recorded_events[i].ms_since_last_event >= 0

(* ---------------------------------------------------------------------- *)
(* C38: ms_since_last_event of a recorded key, mouse-button or double-     *)
(* click event is the time that has passed since the event recorded before *)
(* it, and for the first event of a recording it is the time since the     *)
(* start of the recording, whatever passed through the filter unrecorded   *)
(* in between. The formula checks the first event of a recording.          *)
(* ---------------------------------------------------------------------- *)
TimedEvents ==
  {"MacroKeyEvent", "MacroMouseEvent", "MacroMouseDoubleClickEvent"}

C38_FirstEventTimedFromStart ==
  [][(/\ macro_recorder.recording
      /\ macro_recorder.recorded_events = <<>>
      /\ macro_recorder'.recorded_events # <<>>
      /\ macro_recorder'.recorded_events[1].class \in TimedEvents)
       => macro_recorder'.recorded_events[1].ms_since_last_event
            = now - macro_recorder.timer]_vars

(* ---------------------------------------------------------------------- *)
(* C39: a Macro returned by stop_recording is independent of the recorder: *)
(* nothing that the recorder does later (start_recording, a recorded       *)
(* event, stop_recording) changes the event list of the Macro, with and    *)
(* without the filtering of mouse movements. A list made for the Macro is  *)
(* known to nobody else; the list of the recorder must stay as it is once  *)
(* it is the list of a Macro.                                              *)
(* ---------------------------------------------------------------------- *)
C39_MacroIndependentOfRecorder ==
  [][macro_recorder.macro_events = Some("_recorded_events")
       => macro_recorder'.recorded_events
            = macro_recorder.recorded_events]_vars

(* ---------------------------------------------------------------------- *)
(* ProfilerWrapper: lookups of event times, clear and clear_all            *)
(* ---------------------------------------------------------------------- *)
\* The group has no tracked event id: no key, or a key with an empty list.
NoTrackedEvents(p, group) ==
  \A event_id \in EventIds : ~tracked(p, event_id, group)

\* C35: get_event_time with an event id that is not tracked for the group
\* raises EventNotFoundError and leaves the state of the wrapper as it was;
\* end(group) on a group without tracked events returns "invalid" and does
\* not fail, whatever was called before.
C35_UntrackedLookupsLeaveWrapperUsable ==
  [][/\ (/\ last_return'.op = "get_event_time"
         /\ ~tracked(profiler, last_return'.value[1], last_return'.group))
          => last_return'.raised /\ profiler' = profiler
     /\ (/\ last_return'.op = "end"
         /\ NoTrackedEvents(profiler, last_return'.group))
          => ~last_return'.raised /\ last_return'.value = Some(InvalidId)]_vars

\* Nothing of the group is left: it is not active, none of its event ids is
\* tracked, and the profiler has no entry of it.
GroupForgotten(p, group) ==
  /\ ~is_profiling(p, group)
  /\ NoTrackedEvents(p, group)
  /\ \A i \in DOMAIN p.nodes : p.nodes[i].group # group

\* C36: after clear(group) the group is not active, whatever the nesting
\* depth of its open events was, none of its earlier event ids is tracked, so
\* that get_event_time raises EventNotFoundError for each, and its entries
\* are removed; the tracked ids of every other group are as before.  After
\* clear_all this holds of every group.
C36_ClearForgetsGroup ==
  [][/\ \A group \in Groups :
          (last_return'.op = "clear" /\ last_return'.group = group)
            => /\ GroupForgotten(profiler', group)
               /\ \A other \in Groups \ {group} :
                    profiler'.profiler_events[other]
                      = profiler.profiler_events[other]
     /\ last_return'.op = "clear_all"
          => \A group \in Groups : GroupForgotten(profiler', group)]_vars

(* ---------------------------------------------------------------------- *)
(* C31: every delay above the threshold that MainThreadHealthChecker       *)
(* observes is reported by exactly one emission of anomaly_detected:       *)
(* _on_poll_event, which observes the delay, emits once for it, and a      *)
(* measure() that returns the observed delay, while the poller is running  *)
(* or at the end of a one-shot measurement, does not emit for it again.    *)
(* ---------------------------------------------------------------------- *)
ObservesDelay ==
  /\ OnPollEvent
  /\ last_return'.op = "on_poll_event"
  /\ last_return'.value[1] > threshold_ms

\* No poller was replaced by a second start_measuring, so that every delay
\* was read from a timer that the poller had started.
DelaysWereMeasured ==
  \A p \in PollerIds :
    meter.pollers[p].state # "free" => meter.poller = p

C31_DelayReportedOnce ==
  [][/\ (cls = MainThreadHealthChecker /\ ObservesDelay)
          => /\ meter'.emitted # <<>>
             /\ Last(meter'.emitted).duration_ms = last_return'.value[1]
     /\ (cls = MainThreadHealthChecker /\ MeasureReturnsValue
                                      /\ DelaysWereMeasured)
          => meter'.emitted = Fresh(meter).emitted]_vars

(* ---------------------------------------------------------------------- *)
(* C32: an anomaly that a meter emits while it is connected to the         *)
(* profiler produces exactly one profiler record, however often            *)
(* connect_to_profiler has been called on the meter before.                *)
(* ---------------------------------------------------------------------- *)
EmitsAnomaly ==
  /\ meter'.emitted # <<>>
  /\ meter'.emitted # Fresh(meter).emitted

C32_OneRecordPerAnomaly ==
  [][(EmitsAnomaly /\ meter'.connected_to_profiler)
       => Last(meter'.emitted).records = 1]_vars

(* ---------------------------------------------------------------------- *)
(* C33: _stop_profiling(name, group) ends the profiling event that was     *)
(* started under that name: whenever it ends an event of the profiler, the *)
(* event it ends is named `name`, also when recorded events overlap.       *)
(* ---------------------------------------------------------------------- *)
StopsProfiling == StopProfilingEventDelivered /\ recorder.filter_installed

C33_StopEndsEventOfItsName ==
  [][StopsProfiling
       => LET event == Head(recorder.posted)
              ended == ended_by_end(profiler, event.group)
          IN  ended # None => profiler.nodes[ended[1]].name = event.name]_vars

(* ---------------------------------------------------------------------- *)
(* C34: when a recorded event finishes, the measurement that the widget    *)
(* takes for it is attributed to that event: the context that an anomaly   *)
(* of meter.measure() in _event_recorder_event_finished is emitted with    *)
(* has the name that was passed to event_finished, also when recorded      *)
(* events overlap.                                                         *)
(* ---------------------------------------------------------------------- *)
\* The name of the context that an anomaly of the meter would carry: the top
\* of its context stack, if it has one.
measured_context(m) ==
  IF m.context_stack # <<>> THEN Some(Last(m.context_stack).name) ELSE None

\* event_finished of a delivered StopProfilingEvent reaches the widget.
WidgetMeasuresFinishedEvent ==
  StopsProfiling /\ extension.event_finished_slots > 0

C34_AnomalyNamedAfterFinishedEvent ==
  [][WidgetMeasuresFinishedEvent
       => \A c \in MeterClasses :
            (listed(extension, c) /\ singletons[c].enabled)
              => measured_context(singletons[c])
                   = Some(Head(recorder.posted).name)]_vars

====
